---- MODULE Spec2Model ----
(***************************************************************************)
(* API Extractor: the review-report generator (ApiReportGenerator), the    *)
(* import/export emit helpers (DtsHelpers) and the report equivalence      *)
(* test.  Text is a sequence of one-character strings; a multi-character   *)
(* string stands for a word without white space (a name, a keyword, a      *)
(* punctuation token).                                                     *)
(***************************************************************************)
EXTENDS Integers, Sequences, FiniteSets, TLC

VARIABLES
    actualFileContent,    \* areEquivalentApiFileContents: first argument
    expectedFileContent,  \* areEquivalentApiFileContents: second argument
    otherFileContent,     \* a third report content, for chains of comparisons
    equivalent,           \* the values areEquivalentApiFileContents returned
    eqPc,                 \* "call" before the comparisons, "returned" after
    collector,            \* the Collector after analysis: entities, declarations, messages
    handledMessages,      \* MessageRouter: the messages already fetched (handled = true)
    stringWriter,         \* StringWriter of generateReviewFileContent
    pc,                   \* position in generateReviewFileContent
    importsEmitted,       \* local of generateReviewFileContent
    entityIndex,          \* position of the loops over collector.entities
    declarationIndex,     \* position of the loop over entity.astEntity.astDeclarations
    exportsToEmit,        \* Map<string, IExportToEmit> of the current entity, in insertion order
    exportIndex,          \* position of the loop over exportsToEmit.values()
    modification,         \* Span.modification of every span of the current declaration
    stack,                \* the active calls of _modifySpan, innermost last
    visited,              \* the spans _modifySpan was called on, in call order
    failure,              \* the InternalError that ended the generation, or "none"
    reviewFileContent,    \* the string generateReviewFileContent returned
    sections,             \* history: what was written where in stringWriter
    options,              \* Extractor.invoke: IExtractorInvokeOptions
    extractorConfig,      \* Extractor.invoke: the prepared ExtractorConfig
    environment,          \* what the analysis and the generators of this invocation yield
    fileSystem,           \* the files Extractor.invoke reads and writes
    messageRouter,        \* MessageRouter: the counts and the messages not yet shown
    invokePc,             \* position in Extractor.invoke
    apiReportChanged,     \* local of Extractor.invoke
    artifacts,            \* history: the steps of Extractor.invoke, in their order
    extractorResult,      \* the ExtractorResult returned, or NoResult
    members,              \* ApiItemContainerMixin: this[_members]
    membersSorted,        \* ApiItemContainerMixin: this[_membersSorted]
    membersByCanonicalReference,  \* ApiItemContainerMixin: the Map, in insertion order
    containerResult,      \* the last call on the container and what it returned or threw
    addedMembers          \* history: the members whose addMember returned normally

eqVars == <<actualFileContent, expectedFileContent, otherFileContent, equivalent, eqPc>>

loopVars == <<importsEmitted, entityIndex, declarationIndex, exportsToEmit, exportIndex>>

spanVars == <<modification, stack, visited>>

genVars == <<collector, handledMessages, stringWriter, pc, loopVars, spanVars, failure,
             reviewFileContent, sections>>

invokeVars == <<options, extractorConfig, environment, fileSystem, messageRouter, invokePc,
                apiReportChanged, artifacts, extractorResult>>

containerVars == <<members, membersSorted, membersByCanonicalReference, containerResult,
                   addedMembers>>

restVars == <<invokeVars, containerVars>>

vars == <<eqVars, genVars, restVars>>

(***************************************************************************)
(* Bounds                                                                  *)
(***************************************************************************)
MaxLen == 3       \* longest report content compared pairwise

MaxRelLen == 2    \* longest report content compared in chains of three

(***************************************************************************)
(* Characters.  JavaScript's \s matches the WhiteSpace and LineTerminator   *)
(* characters of ECMAScript: tab, LF, vertical tab, form feed, CR, space,  *)
(* no-break space, U+1680, U+2000 to U+200A, U+2028, U+2029, U+202F,       *)
(* U+205F, U+3000 and U+FEFF.  Vertical tab, no-break space and U+FEFF are *)
(* written as themselves; a string "U+xxxx" stands for the one character   *)
(* of that code point.                                                     *)
(***************************************************************************)
WhitespaceChars ==
    {" ", "\t", "\n", "\r", "\f", "", " ", "﻿",
     "U+1680", "U+2000", "U+2001", "U+2002", "U+2003", "U+2004", "U+2005", "U+2006",
     "U+2007", "U+2008", "U+2009", "U+200A", "U+2028", "U+2029", "U+202F", "U+205F",
     "U+3000"}

IsWhitespace(c) == c \in WhitespaceChars

ReportChars == {"a", "A", " ", "\n", "\r"}

\* white space beyond ASCII, for short contents
WideChars == {"a", " ", "", " ", "U+2028"}

RelChars == {"a", "b", " ", "\n"}

StringsUpTo(chars, n) == UNION {[1..k -> chars] : k \in 0..n}

(***************************************************************************)
(* String.prototype.replace(/[\s]+/g, ' '): scan from the left; at a       *)
(* white-space character the greedy match [\s]+ extends to the end of the  *)
(* run and is replaced by one space; any other character is copied.        *)
(***************************************************************************)
RECURSIVE WhitespaceMatchEnd(_, _)
WhitespaceMatchEnd(s, i) ==
    IF i <= Len(s) /\ IsWhitespace(s[i]) THEN WhitespaceMatchEnd(s, i + 1) ELSE i

RECURSIVE ReplaceRunsFrom(_, _)
ReplaceRunsFrom(s, i) ==
    IF i > Len(s) THEN <<>>
    ELSE IF IsWhitespace(s[i])
         THEN <<" ">> \o ReplaceRunsFrom(s, WhitespaceMatchEnd(s, i))
         ELSE <<s[i]>> \o ReplaceRunsFrom(s, i + 1)

\* mutant: /\s/g in place of /[\s]+/g, every white-space character becomes a space
NormalizeEachChar(content) ==
    [i \in 1..Len(content) |-> IF IsWhitespace(content[i]) THEN " " ELSE content[i]]

NormalizeWhitespace(content) == ReplaceRunsFrom(content, 1)

\* mutant: only the actual content is normalized
AreEquivalentOneSided(actual, expected) ==
    NormalizeWhitespace(actual) = expected

areEquivalentApiFileContents(actual, expected) ==
    LET normalizedActual == NormalizeWhitespace(actual)
        normalizedExpected == NormalizeWhitespace(expected)
    IN  normalizedActual = normalizedExpected

(***************************************************************************)
(* Comparing report contents.  CompareContents calls the comparison on the *)
(* pairs a claim needs, each call with its own arguments.                  *)
(***************************************************************************)
NoComparisons == [aa |-> FALSE, ab |-> FALSE, ba |-> FALSE, bc |-> FALSE, ac |-> FALSE]

CompareContents ==
    /\ eqPc = "call"
    /\ equivalent' =
         [aa |-> areEquivalentApiFileContents(actualFileContent, actualFileContent),
          ab |-> areEquivalentApiFileContents(actualFileContent, expectedFileContent),
          ba |-> areEquivalentApiFileContents(expectedFileContent, actualFileContent),
          bc |-> areEquivalentApiFileContents(expectedFileContent, otherFileContent),
          ac |-> areEquivalentApiFileContents(actualFileContent, otherFileContent)]
    /\ eqPc' = "returned"
    /\ UNCHANGED <<actualFileContent, expectedFileContent, otherFileContent, genVars,
                   restVars>>

(***************************************************************************)
(* Text of the generators.  A string of more than one character is a       *)
(* fragment without line break or tab that neither begins nor ends with a  *)
(* space; spaces, tabs and line breaks between fragments are characters of *)
(* their own.                                                              *)
(***************************************************************************)
Undefined == "undefined"          \* JavaScript's undefined, as a template renders it

\* mutant: no value is taken for a missing one
IsUndefinedNever(x) == FALSE

IsUndefined(x) == x = Undefined

RECURSIVE Join(_, _)
Join(parts, separator) ==
    IF parts = <<>> THEN <<>>
    ELSE IF Len(parts) = 1 THEN <<parts[1]>>
    ELSE <<parts[1]>> \o separator \o Join(Tail(parts), separator)

RECURSIVE Flatten(_)
Flatten(texts) ==
    IF texts = <<>> THEN <<>> ELSE texts[1] \o Flatten(Tail(texts))

\* StringWriter.writeLine(text): the text, then a line feed
WriteLine(text) == text \o <<"\n">>

Quoted(modulePath) == <<"'", modulePath, "'">>

(***************************************************************************)
(* DtsHelpers.emitImport.  exportName is the sequence of the names between *)
(* its dots (<<>> when it is missing); exportName.split('.')[0] is the     *)
(* first of them.  The result is what is written and what is thrown.       *)
(***************************************************************************)
ImportKinds == {"DefaultImport", "NamedImport", "StarImport", "EqualsImport", "ImportType"}

ExportNameText(exportName) ==
    IF exportName = <<>> THEN <<Undefined>> ELSE Join(exportName, <<".">>)

ImportPrefix(astImport) ==
    IF astImport.isTypeOnlyEverywhere THEN <<"import", " ", "type">> ELSE <<"import">>

FromModule(astImport) == WriteLine(<<" ", "from", " ">> \o Quoted(astImport.modulePath) \o <<";">>)

Braced(inner) == <<" ", "{", " ">> \o inner \o <<" ", "}">>

\* mutant: a default import never uses the renaming form
EmitDefaultImportNeverRenamed(collectorEntity, astImport) ==
    ImportPrefix(astImport) \o <<" ">> \o ExportNameText(astImport.exportName)
    \o FromModule(astImport)

EmitDefaultImport(collectorEntity, astImport) ==
    ImportPrefix(astImport)
    \o (IF astImport.exportName # <<collectorEntity.nameForEmit>>
        THEN Braced(<<"default", " ", "as", " ", collectorEntity.nameForEmit>>)
        ELSE <<" ">> \o ExportNameText(astImport.exportName))
    \o FromModule(astImport)

EmitNamedImport(collectorEntity, astImport) ==
    ImportPrefix(astImport)
    \o (IF astImport.exportName = <<collectorEntity.nameForEmit>>
        THEN Braced(ExportNameText(astImport.exportName))
        ELSE Braced(ExportNameText(astImport.exportName)
                    \o <<" ", "as", " ", collectorEntity.nameForEmit>>))
    \o FromModule(astImport)

EmitStarImport(collectorEntity, astImport) ==
    WriteLine(ImportPrefix(astImport)
              \o <<" ", "*", " ", "as", " ", collectorEntity.nameForEmit, " ", "from", " ">>
              \o Quoted(astImport.modulePath) \o <<";">>)

\* mutant: the require form written with a plain `import`, whatever isTypeOnlyEverywhere
EmitEqualsImportPlain(collectorEntity, astImport) ==
    WriteLine(<<"import", " ", collectorEntity.nameForEmit, " ", "=", " ", "require", "(">>
              \o Quoted(astImport.modulePath) \o <<")", ";">>)

EmitEqualsImport(collectorEntity, astImport) ==
    WriteLine(ImportPrefix(astImport)
              \o <<" ", collectorEntity.nameForEmit, " ", "=", " ", "require", "(">>
              \o Quoted(astImport.modulePath) \o <<")", ";">>)

\* mutant: the whole dotted exportName is imported, not its first name
EmitImportTypeWholeName(collectorEntity, astImport) ==
    IF astImport.exportName = <<>>
    THEN EmitStarImport(collectorEntity, astImport)
    ELSE EmitNamedImport(collectorEntity, astImport)

EmitImportType(collectorEntity, astImport) ==
    IF astImport.exportName = <<>>
    THEN EmitStarImport(collectorEntity, astImport)
    ELSE LET topExportName == astImport.exportName[1]
         IN  ImportPrefix(astImport)
             \o (IF collectorEntity.nameForEmit = topExportName
                 THEN Braced(<<topExportName>>)
                 ELSE Braced(<<topExportName, " ", "as", " ", collectorEntity.nameForEmit>>))
             \o FromModule(astImport)

emitImport(collectorEntity, astImport) ==
    CASE astImport.importKind = "DefaultImport" ->
           [written |-> EmitDefaultImport(collectorEntity, astImport), thrown |-> "none"]
      [] astImport.importKind = "NamedImport" ->
           [written |-> EmitNamedImport(collectorEntity, astImport), thrown |-> "none"]
      [] astImport.importKind = "StarImport" ->
           [written |-> EmitStarImport(collectorEntity, astImport), thrown |-> "none"]
      [] astImport.importKind = "EqualsImport" ->
           [written |-> EmitEqualsImport(collectorEntity, astImport), thrown |-> "none"]
      [] astImport.importKind = "ImportType" ->
           [written |-> EmitImportType(collectorEntity, astImport), thrown |-> "none"]
      [] OTHER ->
           [written |-> <<>>, thrown |-> "Unimplemented AstImportKind"]

(***************************************************************************)
(* DtsHelpers.emitNamedExport and DtsHelpers.emitStarExports               *)
(***************************************************************************)
InternalSymbolNameDefault == "default"     \* ts.InternalSymbolName.Default

\* mutant: the renaming form is never used
EmitNamedExportNoRename(exportName, collectorEntity) ==
    IF exportName = InternalSymbolNameDefault
    THEN WriteLine(<<"export", " ", "default", " ", collectorEntity.nameForEmit, ";">>)
    ELSE WriteLine(<<"export", " ", "{", " ", exportName, " ", "}">>)

emitNamedExport(exportName, collectorEntity) ==
    IF exportName = InternalSymbolNameDefault
    THEN WriteLine(<<"export", " ", "default", " ", collectorEntity.nameForEmit, ";">>)
    ELSE IF collectorEntity.nameForEmit # exportName
    THEN WriteLine(<<"export", " ", "{", " ", collectorEntity.nameForEmit, " ", "as", " ",
                     exportName, " ", "}">>)
    ELSE WriteLine(<<"export", " ", "{", " ", exportName, " ", "}">>)

StarExportLine(modulePath) ==
    WriteLine(<<"export", " ", "*", " ", "from", " ", "\"", modulePath, "\"", ";">>)

StarExportLines(modulePaths) ==
    Flatten([i \in 1..Len(modulePaths) |-> StarExportLine(modulePaths[i])])

\* mutant: the blank line is written even when nothing is star-exported
EmitStarExportsAlwaysBlank(modulePaths) ==
    WriteLine(<<>>) \o StarExportLines(modulePaths)

emitStarExports(modulePaths) ==
    IF Len(modulePaths) > 0
    THEN WriteLine(<<>>) \o StarExportLines(modulePaths)
    ELSE <<>>

(***************************************************************************)
(* Syntax trees.  A declaration's tree is a sequence of nodes, node 1 the  *)
(* declaration itself; a Span mirrors a node.  Of a node: its kind, its    *)
(* parent (0 for none) and children, the text before its first child       *)
(* (prefix; a token's own text), the text between it and the next node     *)
(* (separator), the entity its identifier resolves to                      *)
(* (Collector.tryGetEntityForNode; "" for none), the declaration it is     *)
(* (AstSymbolTable.getChildAstDeclarationByNode; 0 for none), the         *)
(* indentation of its line (Span.getIndent) and the number of its type     *)
(* arguments (node.typeArguments.length; 0 when there are none).           *)
(***************************************************************************)
SupportedSyntaxKinds ==
    {"CallSignature", "ClassDeclaration", "ConstructSignature", "Constructor",
     "EnumDeclaration", "EnumMember", "FunctionDeclaration", "GetAccessor", "SetAccessor",
     "IndexSignature", "InterfaceDeclaration", "MethodDeclaration", "MethodSignature",
     "ModuleDeclaration", "PropertyDeclaration", "PropertySignature",
     "TypeAliasDeclaration", "VariableDeclaration"}

isSupportedSyntaxKind(kind) == kind \in SupportedSyntaxKinds

DeclarationKeywordKinds ==
    {"InterfaceKeyword", "ClassKeyword", "EnumKeyword", "NamespaceKeyword", "ModuleKeyword",
     "TypeKeyword", "FunctionKeyword"}

ExportModifierKinds == {"ExportKeyword", "DefaultKeyword", "DeclareKeyword"}

Token(kind, parent, text, separator, entity) ==
    [kind |-> kind, parent |-> parent, children |-> <<>>, prefix |-> <<text>>,
     suffix |-> <<>>, separator |-> separator, entity |-> entity, declaration |-> 0,
     indent |-> <<>>, typeArguments |-> 0]

Inner(kind, parent, children, declaration, indent) ==
    [kind |-> kind, parent |-> parent, children |-> children, prefix |-> <<>>,
     suffix |-> <<>>, separator |-> <<>>, entity |-> "", declaration |-> declaration,
     indent |-> indent, typeArguments |-> 0]

\* /** doc */ export declare class <name> {<braceSeparator> prop: <typeName>;\n}
ClassTree(name, braceSeparator, typeName, typeEntity, member) ==
    << Inner("ClassDeclaration", 0, <<2, 3, 6, 7, 8, 9, 16>>, 0, <<>>),
       Token("JSDocComment", 1, "/** doc */", <<"\n">>, ""),
       Inner("SyntaxList", 1, <<4, 5>>, 0, <<>>),
       Token("ExportKeyword", 3, "export", <<" ">>, ""),
       Token("DeclareKeyword", 3, "declare", <<" ">>, ""),
       Token("ClassKeyword", 1, "class", <<" ">>, ""),
       Token("Identifier", 1, name, <<" ">>, name),
       Token("FirstPunctuation", 1, "{", braceSeparator \o <<" ">>, ""),
       Inner("SyntaxList", 1, <<10>>, 0, <<>>),
       Inner("PropertyDeclaration", 9, <<11, 12, 13, 15>>, member, <<" ">>),
       Token("Identifier", 10, "prop", <<>>, ""),
       Token("ColonToken", 10, ":", <<" ">>, ""),
       Inner("TypeReference", 10, <<14>>, 0, <<>>),
       Token("Identifier", 13, typeName, <<>>, typeEntity),
       Token("SemicolonToken", 10, ";", <<"\n">>, ""),
       Token("CloseBraceToken", 1, "}", <<>>, "") >>

\* <name>: <typeName>   of   export declare const <name>: <typeName>;
VariableTree(name, typeName, typeEntity) ==
    << Inner("VariableDeclaration", 0, <<2, 3, 4>>, 0, <<>>),
       Token("Identifier", 1, name, <<>>, name),
       Token("ColonToken", 1, ":", <<" ">>, ""),
       Inner("TypeReference", 1, <<5>>, 0, <<>>),
       Token("Identifier", 4, typeName, <<>>, typeEntity) >>

(***************************************************************************)
(* ApiItemMetadata of a declaration, as _getAedocSynopsis reads it         *)
(***************************************************************************)
ReleaseTags == {"None", "Internal", "Alpha", "Beta", "Public"}

Metadata(sameAsParent, tag, flags, undocumented, preapproved) ==
    [isPreapproved |-> preapproved, releaseTagSameAsParent |-> sameAsParent,
     effectiveReleaseTag |-> tag, isSealed |-> flags, isVirtual |-> flags,
     isOverride |-> flags, isEventProperty |-> flags, deprecatedBlock |-> flags,
     needsDocumentation |-> undocumented]

MetadataProfiles ==
    [plain |-> Metadata(TRUE, "Public", FALSE, FALSE, FALSE),
     tagged |-> Metadata(FALSE, "Public", FALSE, TRUE, FALSE),
     full |-> Metadata(FALSE, "Beta", TRUE, TRUE, FALSE),
     untagged |-> Metadata(FALSE, "None", FALSE, FALSE, FALSE),
     internal |-> Metadata(FALSE, "Internal", FALSE, FALSE, FALSE),
     alpha |-> Metadata(FALSE, "Alpha", FALSE, TRUE, FALSE),
     preapproved |-> Metadata(FALSE, "Internal", FALSE, TRUE, TRUE)]

(***************************************************************************)
(* AstDeclaration: its tree (top-level declarations), the private modifier *)
(* flag, astSymbol.localName, its metadata, whether matchAncestor finds an *)
(* enclosing VariableDeclarationList, and the text from the start of that  *)
(* list to its first declaration.                                          *)
(***************************************************************************)
AstDeclaration(tree, private, localName, metadata, ancillary, hasList, listPrefix) ==
    [declaration |-> tree, private |-> private, localName |-> localName,
     metadata |-> metadata, isAncillary |-> ancillary, hasList |-> hasList,
     listPrefix |-> listPrefix]

(***************************************************************************)
(* CollectorEntity.  An entity is known by the local name of its           *)
(* astEntity; exported is exportNames.size > 0.                            *)
(***************************************************************************)
NoImport == [importKind |-> "none", modulePath |-> "", exportName |-> <<>>,
             isTypeOnlyEverywhere |-> FALSE]

AstImport(importKind, modulePath, exportName, typeOnly) ==
    [importKind |-> importKind, modulePath |-> modulePath, exportName |-> exportName,
     isTypeOnlyEverywhere |-> typeOnly]

ImportEntity(localName, astImport, nameForEmit, exportNames, preferredAlternative) ==
    [localName |-> localName, isAstImport |-> TRUE, astImport |-> astImport,
     nameForEmit |-> nameForEmit,
     exportNames |-> exportNames, exported |-> exportNames # <<>>,
     shouldInlineExport |-> FALSE, preferredAlternative |-> preferredAlternative,
     astDeclarations |-> <<>>]

SymbolEntity(localName, nameForEmit, exportNames, shouldInlineExport, astDeclarations) ==
    [localName |-> localName, isAstImport |-> FALSE, astImport |-> NoImport,
     nameForEmit |-> nameForEmit,
     exportNames |-> exportNames, exported |-> exportNames # <<>>,
     shouldInlineExport |-> shouldInlineExport, preferredAlternative |-> FALSE,
     astDeclarations |-> astDeclarations]

(***************************************************************************)
(* ExtractorMessage: the declaration it is associated with (0 for none),   *)
(* properties.exportName ("" for none) and its formatted text.             *)
(***************************************************************************)
Message(declaration, exportName, text) ==
    [declaration |-> declaration, exportName |-> exportName, text |-> text]

(***************************************************************************)
(* Trees with several members.                                             *)
(*   /** doc */ export declare class <name> {                              *)
(*     get b();  set b(v);  ;  _a: <typeName>;                             *)
(*   }                                                                     *)
(* The members are, in source order, a getter, its setter, a stray         *)
(* semicolon (SemicolonClassElement, not a declaration) and a property.    *)
(***************************************************************************)
MemberSeparator == <<"\n", " ">>

AccessorClassTree(name, typeName, typeEntity, getter, setter, property) ==
    << Inner("ClassDeclaration", 0, <<2, 3, 6, 7, 8, 9, 30>>, 0, <<>>),
       Token("JSDocComment", 1, "/** doc */", <<"\n">>, ""),
       Inner("SyntaxList", 1, <<4, 5>>, 0, <<>>),
       Token("ExportKeyword", 3, "export", <<" ">>, ""),
       Token("DeclareKeyword", 3, "declare", <<" ">>, ""),
       Token("ClassKeyword", 1, "class", <<" ">>, ""),
       Token("Identifier", 1, name, <<" ">>, name),
       Token("FirstPunctuation", 1, "{", MemberSeparator, ""),
       Inner("SyntaxList", 1, <<10, 16, 23, 24>>, 0, <<>>),
       Inner("GetAccessor", 9, <<11, 12, 13, 14, 15>>, getter, <<" ">>),
       Token("GetKeyword", 10, "get", <<" ">>, ""),
       Token("Identifier", 10, "b", <<>>, ""),
       Token("OpenParenToken", 10, "(", <<>>, ""),
       Token("CloseParenToken", 10, ")", <<>>, ""),
       Token("SemicolonToken", 10, ";", MemberSeparator, ""),
       Inner("SetAccessor", 9, <<17, 18, 19, 20, 21, 22>>, setter, <<" ">>),
       Token("SetKeyword", 16, "set", <<" ">>, ""),
       Token("Identifier", 16, "b", <<>>, ""),
       Token("OpenParenToken", 16, "(", <<>>, ""),
       Token("Parameter", 16, "v", <<>>, ""),
       Token("CloseParenToken", 16, ")", <<>>, ""),
       Token("SemicolonToken", 16, ";", MemberSeparator, ""),
       Token("SemicolonClassElement", 9, ";", MemberSeparator, ""),
       Inner("PropertyDeclaration", 9, <<25, 26, 27, 29>>, property, <<" ">>),
       Token("Identifier", 24, "_a", <<>>, ""),
       Token("ColonToken", 24, ":", <<" ">>, ""),
       Inner("TypeReference", 24, <<28>>, 0, <<>>),
       Token("Identifier", 27, typeName, <<>>, typeEntity),
       Token("SemicolonToken", 24, ";", MemberSeparator, ""),
       Token("CloseBraceToken", 1, "}", <<>>, "") >>

(***************************************************************************)
(*   export declare namespace <name> { function g(); function f(); }       *)
(* The chain is ModuleDeclaration -> ModuleBlock -> SyntaxList.            *)
(***************************************************************************)
NamespaceTree(name, first, second) ==
    << Inner("ModuleDeclaration", 0, <<2, 5, 6, 7>>, 0, <<>>),
       Inner("SyntaxList", 1, <<3, 4>>, 0, <<>>),
       Token("ExportKeyword", 2, "export", <<" ">>, ""),
       Token("DeclareKeyword", 2, "declare", <<" ">>, ""),
       Token("NamespaceKeyword", 1, "namespace", <<" ">>, ""),
       Token("Identifier", 1, name, <<" ">>, name),
       Inner("ModuleBlock", 1, <<8, 9, 22>>, 0, <<>>),
       Token("FirstPunctuation", 7, "{", MemberSeparator, ""),
       Inner("SyntaxList", 7, <<10, 16>>, 0, <<>>),
       Inner("FunctionDeclaration", 9, <<11, 12, 13, 14, 15>>, first, <<" ">>),
       Token("FunctionKeyword", 10, "function", <<" ">>, ""),
       Token("Identifier", 10, "g", <<>>, ""),
       Token("OpenParenToken", 10, "(", <<>>, ""),
       Token("CloseParenToken", 10, ")", <<>>, ""),
       Token("SemicolonToken", 10, ";", MemberSeparator, ""),
       Inner("FunctionDeclaration", 9, <<17, 18, 19, 20, 21>>, second, <<" ">>),
       Token("FunctionKeyword", 16, "function", <<" ">>, ""),
       Token("Identifier", 16, "f", <<>>, ""),
       Token("OpenParenToken", 16, "(", <<>>, ""),
       Token("CloseParenToken", 16, ")", <<>>, ""),
       Token("SemicolonToken", 16, ";", MemberSeparator, ""),
       Token("CloseBraceToken", 7, "}", <<>>, "") >>

(***************************************************************************)
(* Span and SpanModification.  modification is, per node, the record of    *)
(* edits; prefix and suffix read as the node's own text until assigned.    *)
(***************************************************************************)
NoSortKey == <<>>          \* sortKey === undefined

DefaultModification(node) ==
    [prefix |-> node.prefix, suffix |-> node.suffix, omitChildren |-> FALSE,
     omitSeparatorAfter |-> FALSE, sortChildren |-> FALSE, sortKey |-> NoSortKey]

\* new Span(astDeclaration.declaration)
NewSpan(tree) == [s \in 1..Len(tree) |-> DefaultModification(tree[s])]

\* SpanModification.skipAll()
SkipAll(m) ==
    [m EXCEPT !.prefix = <<>>, !.suffix = <<>>, !.omitChildren = TRUE,
              !.omitSeparatorAfter = TRUE]

PositionIn(children, s) == CHOOSE i \in 1..Len(children) : children[i] = s

\* Span.previousSibling, 0 for none
PreviousSibling(tree, s) ==
    IF tree[s].parent = 0 THEN 0
    ELSE LET siblings == tree[tree[s].parent].children
             i == PositionIn(siblings, s)
         IN  IF i = 1 THEN 0 ELSE siblings[i - 1]

(***************************************************************************)
(* The order in which a span renders its children.  With sortChildren the  *)
(* children that have a sort key are sorted by it, ties in their original  *)
(* order, and take the places of the keyed children; a child without a key *)
(* keeps its place.  Sort keys are compared as String.localeCompare does   *)
(* on the names of these trees: by the name, then by the last part.        *)
(***************************************************************************)
SortedNames == <<"a", "b", "bar", "f", "foo", "g", "prop">>

NameRank(name) ==
    IF \E i \in 1..Len(SortedNames) : SortedNames[i] = name
    THEN CHOOSE i \in 1..Len(SortedNames) : SortedNames[i] = name
    ELSE 0

SortKeyRank(sortKey) == 2 * NameRank(sortKey[1]) + (IF sortKey[5] = "1" THEN 0 ELSE 1)

\* Sort.sortBy on the positions of the keyed children: a stable sort
StableSortByKey(mod, keyed) ==
    LET before(j, k) ==
            \/ SortKeyRank(mod[keyed[j]].sortKey) < SortKeyRank(mod[keyed[k]].sortKey)
            \/ /\ SortKeyRank(mod[keyed[j]].sortKey) = SortKeyRank(mod[keyed[k]].sortKey)
               /\ j < k
        place(k) == 1 + Cardinality({j \in 1..Len(keyed) : before(j, k)})
    IN  [i \in 1..Len(keyed) |-> keyed[CHOOSE k \in 1..Len(keyed) : place(k) = i]]

RenderOrder(tree, mod, s) ==
    LET children == tree[s].children
        hasKey(c) == mod[c].sortKey # NoSortKey
        keyed == SelectSeq(children, hasKey)
        sortedSubset == StableSortByKey(mod, keyed)
        keyedBefore(i) == Cardinality({j \in 1..i : hasKey(children[j])})
    IN  IF mod[s].sortChildren /\ Len(keyed) > 1
        THEN [i \in 1..Len(children) |->
                 IF hasKey(children[i]) THEN sortedSubset[keyedBefore(i)] ELSE children[i]]
        ELSE children

\* Span.getModifiedText(): prefix, children in their render order, suffix, separator
RECURSIVE ModifiedText(_, _, _)
ModifiedText(tree, mod, s) ==
    mod[s].prefix
    \o (IF mod[s].omitChildren THEN <<>>
        ELSE LET order == RenderOrder(tree, mod, s)
             IN  Flatten([i \in 1..Len(order) |-> ModifiedText(tree, mod, order[i])]))
    \o mod[s].suffix
    \o (IF mod[s].omitSeparatorAfter THEN <<>> ELSE tree[s].separator)

(***************************************************************************)
(* Text.convertToLf, String.split('\n'), Text.replaceAll                   *)
(***************************************************************************)
RECURSIVE ConvertToLf(_)
ConvertToLf(text) ==
    IF text = <<>> THEN <<>>
    ELSE IF Len(text) >= 2 /\ <<text[1], text[2]>> \in {<<"\r", "\n">>, <<"\n", "\r">>}
    THEN <<"\n">> \o ConvertToLf(SubSeq(text, 3, Len(text)))
    ELSE IF text[1] \in {"\r", "\n"} THEN <<"\n">> \o ConvertToLf(Tail(text))
    ELSE <<text[1]>> \o ConvertToLf(Tail(text))

RECURSIVE SplitLines(_)
SplitLines(text) ==
    IF \A i \in 1..Len(text) : text[i] # "\n" THEN <<text>>
    ELSE LET i == CHOOSE k \in 1..Len(text) :
                      text[k] = "\n" /\ \A j \in 1..(k - 1) : text[j] # "\n"
         IN  <<SubSeq(text, 1, i - 1)>> \o SplitLines(SubSeq(text, i + 1, Len(text)))

\* ApiReportGenerator._writeLineAsComments
writeLineAsComments(line) ==
    LET lines == SplitLines(ConvertToLf(line))
    IN  Flatten([i \in 1..Len(lines) |-> <<"//", " ">> \o lines[i] \o <<"\n">>])

\* ApiReportGenerator._addIndentAfterNewlines
addIndentAfterNewlines(text, indent) ==
    IF Len(text) = 0 \/ Len(indent) = 0 THEN text
    ELSE Flatten([i \in 1..Len(text) |->
                     IF text[i] = "\n" THEN <<"\n">> \o indent ELSE <<text[i]>>])

(***************************************************************************)
(* ApiReportGenerator._getAedocSynopsis                                    *)
(***************************************************************************)
getTagName(releaseTag) ==
    CASE releaseTag = "Internal" -> "@internal"
      [] releaseTag = "Alpha" -> "@alpha"
      [] releaseTag = "Beta" -> "@beta"
      [] releaseTag = "Public" -> "@public"
      [] OTHER -> Undefined

\* mutant: the release tag is listed even when it is the parent's
FooterPartsTagAlways(metadata) ==
    (IF metadata.effectiveReleaseTag # "None"
     THEN <<getTagName(metadata.effectiveReleaseTag)>> ELSE <<>>)
    \o (IF metadata.isSealed THEN <<"@sealed">> ELSE <<>>)
    \o (IF metadata.isVirtual THEN <<"@virtual">> ELSE <<>>)
    \o (IF metadata.isOverride THEN <<"@override">> ELSE <<>>)
    \o (IF metadata.isEventProperty THEN <<"@eventProperty">> ELSE <<>>)
    \o (IF metadata.deprecatedBlock THEN <<"@deprecated">> ELSE <<>>)
    \o (IF metadata.needsDocumentation THEN <<"(undocumented)">> ELSE <<>>)

FooterParts(metadata) ==
    (IF ~metadata.releaseTagSameAsParent /\ metadata.effectiveReleaseTag # "None"
     THEN <<getTagName(metadata.effectiveReleaseTag)>> ELSE <<>>)
    \o (IF metadata.isSealed THEN <<"@sealed">> ELSE <<>>)
    \o (IF metadata.isVirtual THEN <<"@virtual">> ELSE <<>>)
    \o (IF metadata.isOverride THEN <<"@override">> ELSE <<>>)
    \o (IF metadata.isEventProperty THEN <<"@eventProperty">> ELSE <<>>)
    \o (IF metadata.deprecatedBlock THEN <<"@deprecated">> ELSE <<>>)
    \o (IF metadata.needsDocumentation THEN <<"(undocumented)">> ELSE <<>>)

WarningLines(messagesToReport) ==
    Flatten([i \in 1..Len(messagesToReport) |->
                writeLineAsComments(<<"Warning:", " ">> \o messagesToReport[i].text)])

\* mutant: an ancillary declaration gets a footer line like any other
GetAedocSynopsisFooterAlways(astDeclaration, messagesToReport) ==
    WarningLines(messagesToReport)
    \o (LET footerParts == FooterParts(astDeclaration.metadata)
        IN  IF Len(footerParts) > 0
            THEN (IF Len(messagesToReport) > 0 THEN writeLineAsComments(<<>>) ELSE <<>>)
                 \o writeLineAsComments(Join(footerParts, <<" ">>))
            ELSE <<>>)

getAedocSynopsis(astDeclaration, messagesToReport) ==
    WarningLines(messagesToReport)
    \o (IF astDeclaration.isAncillary THEN <<>>
        ELSE LET footerParts == FooterParts(astDeclaration.metadata)
             IN  IF Len(footerParts) > 0
                 THEN (IF Len(messagesToReport) > 0 THEN writeLineAsComments(<<>>) ELSE <<>>)
                      \o writeLineAsComments(Join(footerParts, <<" ">>))
                 ELSE <<>>)

(***************************************************************************)
(* ApiReportGenerator._modifySpanForPreapproved                            *)
(***************************************************************************)
PreapprovedSuffix == <<" ", "{", " ", "/* (preapproved) */", " ", "}">>

RECURSIVE PreapprovedFrom(_, _, _, _)
PreapprovedFrom(tree, mod, i, skipRest) ==
    IF i > Len(tree[1].children) THEN mod
    ELSE LET child == tree[1].children[i]
             skipped == IF skipRest \/ tree[child].kind \in {"SyntaxList", "JSDocComment"}
                        THEN [mod EXCEPT ![child] = SkipAll(@)] ELSE mod
         IN  IF tree[child].kind = "Identifier"
             THEN PreapprovedFrom(tree,
                      [skipped EXCEPT ![child].omitSeparatorAfter = TRUE,
                                      ![child].suffix = PreapprovedSuffix],
                      i + 1, TRUE)
             ELSE PreapprovedFrom(tree, skipped, i + 1, skipRest)

\* mutant: the children after the name are not skipped
ModifySpanForPreapprovedListsOnly(tree, mod) ==
    [s \in 1..Len(mod) |->
        IF tree[s].parent # 1 THEN mod[s]
        ELSE IF tree[s].kind \in {"SyntaxList", "JSDocComment"} THEN SkipAll(mod[s])
        ELSE IF tree[s].kind = "Identifier"
        THEN [mod[s] EXCEPT !.omitSeparatorAfter = TRUE, !.suffix = PreapprovedSuffix]
        ELSE mod[s]]

modifySpanForPreapproved(tree, mod) == PreapprovedFrom(tree, mod, 1, FALSE)

(***************************************************************************)
(* ApiReportGenerator._modifySpan, the part before the loop over the       *)
(* children: the private check and the switch on span.kind.  The result is *)
(* the modifications, whether and how the children are visited, and what   *)
(* is thrown.                                                              *)
(***************************************************************************)
\* Collector.tryGetEntityForNode: the position of the entity in collector.entities, 0 for none
tryGetEntityForNode(entities, node) ==
    IF node.entity # "" /\ \E i \in 1..Len(entities) : entities[i].localName = node.entity
    THEN CHOOSE i \in 1..Len(entities) : entities[i].localName = node.entity
    ELSE 0

Visit(mod, recurseChildren, sortChildren, insideTypeLiteral, thrown) ==
    [modification |-> mod, recurseChildren |-> recurseChildren,
     sortChildren |-> sortChildren, insideTypeLiteral |-> insideTypeLiteral,
     thrown |-> thrown]

\* case InterfaceKeyword ... FunctionKeyword
ModifyDeclarationKeyword(mod, tree, s, entity) ==
    LET replacedModifiers == IF entity.shouldInlineExport THEN <<"export", " ">> ELSE <<>>
        previousSpan == PreviousSibling(tree, s)
    IN  IF previousSpan # 0 /\ tree[previousSpan].kind = "SyntaxList"
        THEN [mod EXCEPT ![previousSpan].prefix = replacedModifiers \o @]
        ELSE [mod EXCEPT ![s].prefix = replacedModifiers \o @]

\* case VariableDeclaration, with the enclosing list found
ModifyVariableDeclaration(mod, s, entity, astDeclaration) ==
    LET withList == [mod EXCEPT ![s].prefix = astDeclaration.listPrefix \o @,
                                ![s].suffix = <<";">>]
    IN  IF entity.shouldInlineExport
        THEN [withList EXCEPT ![s].prefix = <<"export", " ">> \o @]
        ELSE withList

\* mutant: the identifier is replaced by the entity's local name
ModifyIdentifierLocalName(mod, s, referencedEntity) ==
    [mod EXCEPT ![s].prefix = <<referencedEntity.localName>>]

\* case Identifier, with the referenced entity found and named
ModifyIdentifier(mod, s, referencedEntity) ==
    [mod EXCEPT ![s].prefix = <<referencedEntity.nameForEmit>>]

\* case Identifier, with no referenced entity
UnresolvedIdentifier(mod, s) == mod

ModifySpanSwitch(mod, entities, tree, s, entity, astDeclaration, insideTypeLiteral) ==
    LET kind == tree[s].kind
    IN  CASE kind = "JSDocComment" ->
               Visit([mod EXCEPT ![s] = SkipAll(@)], FALSE, FALSE, insideTypeLiteral, "none")
          [] kind \in ExportModifierKinds ->
               Visit([mod EXCEPT ![s] = SkipAll(@)], TRUE, FALSE, insideTypeLiteral, "none")
          [] kind \in DeclarationKeywordKinds ->
               Visit(ModifyDeclarationKeyword(mod, tree, s, entity),
                     TRUE, FALSE, insideTypeLiteral, "none")
          [] kind = "SyntaxList" ->
               Visit(mod, TRUE,
                     /\ tree[s].parent # 0
                     /\ \/ isSupportedSyntaxKind(tree[tree[s].parent].kind)
                        \/ tree[tree[s].parent].kind = "ModuleBlock",
                     insideTypeLiteral, "none")
          [] kind = "VariableDeclaration" ->
               IF tree[s].parent # 0
               THEN Visit(mod, TRUE, FALSE, insideTypeLiteral, "none")
               ELSE IF ~astDeclaration.hasList
               THEN Visit(mod, FALSE, FALSE, insideTypeLiteral,
                          "Unsupported variable declaration")
               ELSE Visit(ModifyVariableDeclaration(mod, s, entity, astDeclaration),
                          TRUE, FALSE, insideTypeLiteral, "none")
          [] kind = "Identifier" ->
               LET referencedEntity == tryGetEntityForNode(entities, tree[s])
               IN  IF referencedEntity # 0
                   THEN IF IsUndefined(entities[referencedEntity].nameForEmit)
                        THEN Visit(mod, FALSE, FALSE, insideTypeLiteral,
                                   "referencedEntry.nameForEmit is undefined")
                        ELSE Visit(ModifyIdentifier(mod, s, entities[referencedEntity]),
                                   TRUE, FALSE, insideTypeLiteral, "none")
                   ELSE Visit(UnresolvedIdentifier(mod, s),
                              TRUE, FALSE, insideTypeLiteral, "none")
          [] kind = "TypeLiteral" ->
               Visit(mod, TRUE, FALSE, TRUE, "none")
          [] OTHER ->
               Visit(mod, TRUE, FALSE, insideTypeLiteral, "none")

\* mutant: a declaration tagged @internal is trimmed like a private one
ModifySpanEntryTrimmed(mod, entities, tree, s, entity, astDeclaration, insideTypeLiteral) ==
    IF astDeclaration.private \/ astDeclaration.metadata.effectiveReleaseTag = "Internal"
    THEN Visit([mod EXCEPT ![s] = SkipAll(@)], FALSE, FALSE, insideTypeLiteral, "none")
    ELSE ModifySpanSwitch(mod, entities, tree, s, entity, astDeclaration, insideTypeLiteral)

ModifySpanEntry(mod, entities, tree, s, entity, astDeclaration, insideTypeLiteral) ==
    IF astDeclaration.private
    THEN Visit([mod EXCEPT ![s] = SkipAll(@)], FALSE, FALSE, insideTypeLiteral, "none")
    ELSE ModifySpanSwitch(mod, entities, tree, s, entity, astDeclaration, insideTypeLiteral)

(***************************************************************************)
(* MessageRouter: a message is fetched once; fetching marks it handled.    *)
(***************************************************************************)
Indices(seq) == [i \in 1..Len(seq) |-> i]

\* fetchAssociatedMessagesForReviewFile(astDeclaration): positions in collector.messages
fetchAssociatedMessagesForReviewFile(messages, handled, declaration) ==
    LET wanted(i) == messages[i].declaration = declaration /\ i \notin handled
    IN  SelectSeq(Indices(messages), wanted)

\* fetchUnassociatedMessagesForReviewFile()
fetchUnassociatedMessagesForReviewFile(messages, handled) ==
    LET wanted(i) == messages[i].declaration = 0 /\ i \notin handled
    IN  SelectSeq(Indices(messages), wanted)

Range(seq) == {seq[i] : i \in 1..Len(seq)}

MessagesAt(messages, indices) == [k \in 1..Len(indices) |-> messages[indices[k]]]

\* ExtractorMessage.formatMessageWithLocation
formatMessageWithLocation(message) == <<"index.d.ts:1:1", " ", "-", " ">> \o message.text

(***************************************************************************)
(* Collector.getSortKeyIgnoringUnderscore: a leading underscore is dropped *)
(* and the name is lower-cased; the names of these trees are lower case.   *)
(***************************************************************************)
WithoutUnderscore(identifier) ==
    CASE identifier = "_prop" -> "prop"
      [] identifier = "_a" -> "a"
      [] OTHER -> identifier

getSortKeyIgnoringUnderscore(identifier) ==
    LET bare == WithoutUnderscore(identifier)
    IN  <<bare, "*", bare, "*", IF bare # identifier THEN "1" ELSE "2">>

(***************************************************************************)
(* Positions of generateReviewFileContent and the current loop items       *)
(***************************************************************************)
Entities == collector.entities

CurrentEntity == Entities[entityIndex]

CurrentDeclarationId == CurrentEntity.astDeclarations[declarationIndex]

CurrentDeclaration == collector.declarations[CurrentDeclarationId]

CurrentTree == CurrentDeclaration.declaration

Section(kind, entity, item, start, textStart, end) ==
    [kind |-> kind, entity |-> entity, item |-> item, start |-> start,
     textStart |-> textStart, end |-> end]

Frame(span, sortChildren, insideTypeLiteral, astDeclaration) ==
    [span |-> span, next |-> 1, sortChildren |-> sortChildren,
     insideTypeLiteral |-> insideTypeLiteral, astDeclaration |-> astDeclaration]

Fail(message) ==
    /\ failure' = message
    /\ pc' = "failed"

(***************************************************************************)
(* generateReviewFileContent, lines 38-61: the header and the imports      *)
(***************************************************************************)
\* the Markdown code fence, three backquotes (a backquote cannot be written in a string here)
Fence == "[fence]"

ReportHeader(packageName) ==
    WriteLine(<<"## API Report File for", " ", "\"", packageName, "\"", "\n", "\n",
                "> Do not edit this file. It is a report generated by [API Extractor](https://api-extractor.com/).",
                "\n">>)
    \o WriteLine(<<Fence, "ts", "\n">>)

WriteHeader ==
    /\ pc = "start"
    /\ stringWriter' = stringWriter \o ReportHeader(collector.workingPackage.name)
    /\ importsEmitted' = FALSE
    /\ entityIndex' = 1
    /\ pc' = "imports"
    /\ UNCHANGED <<collector, handledMessages, declarationIndex, exportsToEmit, exportIndex,
                   spanVars, failure, reviewFileContent, sections, eqVars, restVars>>

\* one iteration of the loop of lines 52-57
EmitImportStep ==
    /\ pc = "imports"
    /\ entityIndex <= Len(Entities)
    /\ LET entity == CurrentEntity
           emitted == emitImport(entity, entity.astImport)
       IN  IF entity.isAstImport /\ ~entity.preferredAlternative
           THEN IF emitted.thrown # "none"
                THEN /\ Fail(emitted.thrown)
                     /\ UNCHANGED <<stringWriter, importsEmitted, entityIndex, sections>>
                ELSE /\ stringWriter' = stringWriter \o emitted.written
                     /\ importsEmitted' = TRUE
                     /\ sections' = Append(sections,
                            Section("import", entityIndex, entity.nameForEmit,
                                    Len(stringWriter) + 1, Len(stringWriter) + 1,
                                    Len(stringWriter) + Len(emitted.written)))
                     /\ entityIndex' = entityIndex + 1
                     /\ UNCHANGED <<pc, failure>>
           ELSE /\ entityIndex' = entityIndex + 1
                /\ UNCHANGED <<stringWriter, importsEmitted, sections, pc, failure>>
    /\ UNCHANGED <<collector, handledMessages, declarationIndex, exportsToEmit, exportIndex,
                   spanVars, reviewFileContent, eqVars, restVars>>

\* lines 59-61
EndImports ==
    /\ pc = "imports"
    /\ entityIndex > Len(Entities)
    /\ stringWriter' = stringWriter \o (IF importsEmitted THEN WriteLine(<<>>) ELSE <<>>)
    /\ entityIndex' = 1
    /\ pc' = "entities"
    /\ UNCHANGED <<collector, handledMessages, importsEmitted, declarationIndex,
                   exportsToEmit, exportIndex, spanVars, failure, reviewFileContent,
                   sections, eqVars, restVars>>

(***************************************************************************)
(* generateReviewFileContent, lines 63-119: the declarations of an entity  *)
(***************************************************************************)
\* mutant: an export statement is prepared for every export name, inline or not
NewExportsToEmitAlways(entity) ==
    [i \in 1..Len(entity.exportNames) |->
        [exportName |-> entity.exportNames[i], associatedMessages |-> <<>>]]

\* lines 74-80
NewExportsToEmit(entity) ==
    IF entity.shouldInlineExport THEN <<>>
    ELSE [i \in 1..Len(entity.exportNames) |->
             [exportName |-> entity.exportNames[i], associatedMessages |-> <<>>]]

HasExportToEmit(exports, exportName) ==
    \E k \in 1..Len(exports) : exports[k].exportName = exportName

\* lines 94-103: is the message peeled off to an export statement?
IsPeeledOff(exports, message) ==
    message.exportName # "" /\ HasExportToEmit(exports, message.exportName)

\* mutant: every fetched message is left for the synopsis
MessagesToReportAll(exports, messages, fetched) == fetched

\* lines 93-103: the messages left for the declaration's synopsis
MessagesToReport(exports, messages, fetched) ==
    LET stays(i) == ~IsPeeledOff(exports, messages[i])
    IN  SelectSeq(fetched, stays)

\* lines 96-99: the exports with the peeled-off messages pushed
WithAssociatedMessages(exports, messages, fetched) ==
    [k \in 1..Len(exports) |->
        LET goes(i) == messages[i].exportName = exports[k].exportName
        IN  [exports[k] EXCEPT !.associatedMessages = @ \o SelectSeq(fetched, goes)]]

BeginEntity ==
    /\ pc = "entities"
    /\ entityIndex <= Len(Entities)
    /\ IF CurrentEntity.exported
       THEN /\ exportsToEmit' = NewExportsToEmit(CurrentEntity)
            /\ declarationIndex' = 1
            /\ pc' = "declarations"
            /\ UNCHANGED entityIndex
       ELSE /\ entityIndex' = entityIndex + 1
            /\ UNCHANGED <<exportsToEmit, declarationIndex, pc>>
    /\ UNCHANGED <<collector, handledMessages, stringWriter, importsEmitted, exportIndex,
                   spanVars, failure, reviewFileContent, sections, eqVars, restVars>>

\* lines 84-114: the synopsis, the new Span and the call of _modifySpan on it
BeginDeclaration ==
    /\ pc = "declarations"
    /\ ~CurrentEntity.isAstImport
    /\ declarationIndex <= Len(CurrentEntity.astDeclarations)
    /\ LET astDeclaration == CurrentDeclaration
           fetchedMessages == fetchAssociatedMessagesForReviewFile(
                                  collector.messages, handledMessages, CurrentDeclarationId)
           messagesToReport == MessagesToReport(exportsToEmit, collector.messages,
                                                fetchedMessages)
           synopsis == getAedocSynopsis(astDeclaration,
                                        MessagesAt(collector.messages, messagesToReport))
           span == NewSpan(CurrentTree)
           entry == ModifySpanEntry(span, Entities, CurrentTree, 1, CurrentEntity,
                                    astDeclaration, FALSE)
       IN  /\ handledMessages' = handledMessages \cup Range(fetchedMessages)
           /\ exportsToEmit' = WithAssociatedMessages(exportsToEmit, collector.messages,
                                                      fetchedMessages)
           /\ stringWriter' = stringWriter \o synopsis
           /\ sections' = Append(sections,
                  Section("declaration", entityIndex, CurrentDeclarationId,
                          Len(stringWriter) + 1, Len(stringWriter) + Len(synopsis) + 1, 0))
           /\ IF astDeclaration.metadata.isPreapproved
              THEN /\ modification' = modifySpanForPreapproved(CurrentTree, span)
                   /\ stack' = <<>>
                   /\ visited' = <<>>
                   /\ pc' = "modify"
                   /\ UNCHANGED failure
              ELSE /\ modification' = entry.modification
                   /\ visited' = <<1>>
                   /\ stack' = IF entry.thrown = "none" /\ entry.recurseChildren
                               THEN <<Frame(1, entry.sortChildren, entry.insideTypeLiteral,
                                            CurrentDeclarationId)>>
                               ELSE <<>>
                   /\ IF entry.thrown = "none"
                      THEN pc' = "modify" /\ UNCHANGED failure
                      ELSE Fail(entry.thrown)
    /\ UNCHANGED <<collector, importsEmitted, entityIndex, declarationIndex, exportIndex,
                   reviewFileContent, eqVars, restVars>>

(***************************************************************************)
(* _modifySpan, lines 283-310: one iteration of the loop over the children *)
(* of the innermost active call, with the call of _modifySpan on the child *)
(* up to the child's own loop.                                             *)
(***************************************************************************)
\* mutant: the child is told to sort its own children
WithSortKeyOnChild(mod, span, child, childAstDeclaration) ==
    [mod EXCEPT ![child].sortChildren = TRUE,
                ![child].sortKey = getSortKeyIgnoringUnderscore(childAstDeclaration.localName)]

\* lines 290-294
WithSortKey(mod, span, child, childAstDeclaration) ==
    [mod EXCEPT ![span].sortChildren = TRUE,
                ![child].sortKey = getSortKeyIgnoringUnderscore(childAstDeclaration.localName)]

\* lines 296-305
WithSynopsis(mod, tree, child, childAstDeclaration, messagesToReport) ==
    LET aedocSynopsis == getAedocSynopsis(childAstDeclaration, messagesToReport)
        indentedAedocSynopsis == addIndentAfterNewlines(aedocSynopsis, tree[child].indent)
    IN  [mod EXCEPT ![child].prefix = indentedAedocSynopsis \o @]

ModifySpanChild ==
    /\ pc = "modify"
    /\ stack # <<>>
    /\ LET frame == stack[Len(stack)]
           tree == CurrentTree
           children == tree[frame.span].children
       IN  /\ frame.next <= Len(children)
           /\ LET child == children[frame.next]
                  supported == isSupportedSyntaxKind(tree[child].kind)
                  childId == IF supported THEN tree[child].declaration
                             ELSE frame.astDeclaration
                  childAstDeclaration == collector.declarations[childId]
                  sorted == IF supported /\ frame.sortChildren
                            THEN WithSortKey(modification, frame.span, child,
                                             childAstDeclaration)
                            ELSE modification
                  fetched == IF supported /\ ~frame.insideTypeLiteral
                             THEN fetchAssociatedMessagesForReviewFile(
                                      collector.messages, handledMessages, childId)
                             ELSE <<>>
                  prepared == IF supported /\ ~frame.insideTypeLiteral
                              THEN WithSynopsis(sorted, tree, child, childAstDeclaration,
                                                MessagesAt(collector.messages, fetched))
                              ELSE sorted
                  entry == ModifySpanEntry(prepared, Entities, tree, child, CurrentEntity,
                                           childAstDeclaration, frame.insideTypeLiteral)
                  advanced == [stack EXCEPT ![Len(stack)].next = @ + 1]
              IN  /\ handledMessages' = handledMessages \cup Range(fetched)
                  /\ modification' = entry.modification
                  /\ visited' = Append(visited, child)
                  /\ IF entry.thrown # "none"
                     THEN Fail(entry.thrown) /\ UNCHANGED stack
                     ELSE /\ stack' = IF entry.recurseChildren /\ tree[child].children # <<>>
                                      THEN Append(advanced,
                                               Frame(child, entry.sortChildren,
                                                     entry.insideTypeLiteral, childId))
                                      ELSE advanced
                          /\ UNCHANGED <<pc, failure>>
    /\ UNCHANGED <<collector, stringWriter, loopVars, reviewFileContent, sections, eqVars,
                   restVars>>

\* the loop of the innermost active call is over: the call returns
ModifySpanReturn ==
    /\ pc = "modify"
    /\ stack # <<>>
    /\ LET frame == stack[Len(stack)]
       IN  frame.next > Len(CurrentTree[frame.span].children)
    /\ stack' = SubSeq(stack, 1, Len(stack) - 1)
    /\ UNCHANGED <<collector, handledMessages, stringWriter, pc, loopVars, modification,
                   visited, failure, reviewFileContent, sections, eqVars, restVars>>

\* lines 116-117: span.writeModifiedText and the blank line after the declaration
WriteDeclaration ==
    /\ pc = "modify"
    /\ stack = <<>>
    /\ stringWriter' = stringWriter \o ModifiedText(CurrentTree, modification, 1)
                       \o WriteLine(<<"\n">>)
    /\ sections' = [sections EXCEPT ![Len(sections)].end = Len(stringWriter')]
    /\ declarationIndex' = declarationIndex + 1
    /\ pc' = "declarations"
    /\ UNCHANGED <<collector, handledMessages, importsEmitted, entityIndex, exportsToEmit,
                   exportIndex, spanVars, failure, reviewFileContent, eqVars, restVars>>

\* the loop of lines 84-118 is over (an AstImport has no declarations to emit)
EndDeclarations ==
    /\ pc = "declarations"
    /\ \/ CurrentEntity.isAstImport
       \/ declarationIndex > Len(CurrentEntity.astDeclarations)
    /\ exportIndex' = 1
    /\ pc' = "exports"
    /\ UNCHANGED <<collector, handledMessages, stringWriter, importsEmitted, entityIndex,
                   declarationIndex, exportsToEmit, spanVars, failure, reviewFileContent,
                   sections, eqVars, restVars>>

(***************************************************************************)
(* generateReviewFileContent, lines 121-131: the export statements         *)
(***************************************************************************)
EmitExportStep ==
    /\ pc = "exports"
    /\ exportIndex <= Len(exportsToEmit)
    /\ LET exportToEmit == exportsToEmit[exportIndex]
           warnings == WarningLines(MessagesAt(collector.messages,
                                               exportToEmit.associatedMessages))
           statement == emitNamedExport(exportToEmit.exportName, CurrentEntity)
       IN  /\ stringWriter' = stringWriter \o warnings \o statement \o WriteLine(<<>>)
           /\ sections' = Append(sections,
                  Section("export", entityIndex, exportToEmit.exportName,
                          Len(stringWriter) + 1, Len(stringWriter) + Len(warnings) + 1,
                          Len(stringWriter) + Len(warnings) + Len(statement)))
    /\ exportIndex' = exportIndex + 1
    /\ UNCHANGED <<collector, handledMessages, pc, importsEmitted, entityIndex,
                   declarationIndex, exportsToEmit, spanVars, failure, reviewFileContent,
                   eqVars, restVars>>

\* mutant: an entity whose exports were written is no longer inline
EndEntityWritten ==
    /\ pc = "exports"
    /\ exportIndex > Len(exportsToEmit)
    /\ entityIndex' = entityIndex + 1
    /\ pc' = "entities"
    /\ collector' = [collector EXCEPT !.entities[entityIndex].shouldInlineExport = FALSE]
    /\ UNCHANGED <<handledMessages, stringWriter, importsEmitted,
                   declarationIndex, exportsToEmit, exportIndex, spanVars, failure,
                   reviewFileContent, sections, eqVars, restVars>>

EndEntity ==
    /\ pc = "exports"
    /\ exportIndex > Len(exportsToEmit)
    /\ entityIndex' = entityIndex + 1
    /\ pc' = "entities"
    /\ UNCHANGED <<collector, handledMessages, stringWriter, importsEmitted,
                   declarationIndex, exportsToEmit, exportIndex, spanVars, failure,
                   reviewFileContent, sections, eqVars, restVars>>

(***************************************************************************)
(* generateReviewFileContent, lines 135-160: the star exports, the         *)
(* unassociated warnings, the closing fence and the trimmed result         *)
(***************************************************************************)
EmitStarExports ==
    /\ pc = "entities"
    /\ entityIndex > Len(Entities)
    /\ LET written == emitStarExports(collector.starExportedExternalModulePaths)
       IN  /\ stringWriter' = stringWriter \o written
           /\ sections' = Append(sections,
                  Section("starExports", 0, "", Len(stringWriter) + 1,
                          Len(stringWriter) + 2, Len(stringWriter) + Len(written)))
    /\ pc' = "trailer"
    /\ UNCHANGED <<collector, handledMessages, loopVars, spanVars, failure,
                   reviewFileContent, eqVars, restVars>>

\* lines 138-149
UnassociatedWarnings(unassociatedMessages) ==
    IF Len(unassociatedMessages) > 0
    THEN WriteLine(<<>>)
         \o writeLineAsComments(<<"Warnings were encountered during analysis:">>)
         \o writeLineAsComments(<<>>)
         \o Flatten([i \in 1..Len(unassociatedMessages) |->
                        writeLineAsComments(
                            formatMessageWithLocation(unassociatedMessages[i]))])
    ELSE <<>>

\* lines 151-154
PackageDocumentationNote(workingPackage) ==
    IF IsUndefined(workingPackage.tsdocComment)
    THEN WriteLine(<<>>)
         \o writeLineAsComments(<<"(No @packageDocumentation comment for this package)">>)
    ELSE <<>>

\* the LineTerminator characters of ECMAScript, before which $ matches under the
\* m flag: LF, CR, U+2028 and U+2029
IsLineTerminator(c) == c \in {"\n", "\r", "U+2028", "U+2029"}

\* does / +$/m match at position i?  A run of spaces starts or goes on there
\* and a line terminator or the end of the text follows the run
InTrailingSpaces(text, i) ==
    /\ text[i] = " "
    /\ \E j \in (i + 1)..(Len(text) + 1) :
          /\ \A k \in i..(j - 1) : text[k] = " "
          /\ j = Len(text) + 1 \/ IsLineTerminator(text[j])

\* mutant: / +$/g without the m flag, only the spaces at the end of the text go
TrimSpacesAtEndOnly(text) ==
    LET keep == {i \in 1..Len(text) : \E j \in i..Len(text) : text[j] # " "}
    IN  SubSeq(text, 1, Cardinality(keep))

\* text.replace(ApiReportGenerator._TrimSpacesRegExp, '')
TrimSpaces(text) ==
    LET kept(i) == ~InTrailingSpaces(text, i)
        positions == SelectSeq([i \in 1..Len(text) |-> i], kept)
    IN  [k \in 1..Len(positions) |-> text[positions[k]]]

WriteTrailer ==
    /\ pc = "trailer"
    /\ LET unassociated == fetchUnassociatedMessagesForReviewFile(collector.messages,
                                                                  handledMessages)
       IN  /\ handledMessages' = handledMessages \cup Range(unassociated)
           /\ stringWriter' = stringWriter
                  \o UnassociatedWarnings(MessagesAt(collector.messages, unassociated))
                  \o PackageDocumentationNote(collector.workingPackage)
                  \o WriteLine(<<"\n", Fence>>)
    /\ reviewFileContent' = TrimSpaces(stringWriter')
    /\ pc' = "done"
    /\ UNCHANGED <<collector, loopVars, spanVars, failure, sections, eqVars, restVars>>

(***************************************************************************)
(* SignatureMetadata: whether a declaration is ancillary to another one,   *)
(* and the declarations that are ancillary to it.                          *)
(***************************************************************************)
\* new InternalSignatureMetadata(): the initial values of its fields
InternalSignatureMetadata ==
    [tsdocParserContext |-> Undefined, isAncillary |-> FALSE,
     ancillaryDeclarations |-> <<>>, declarationMetadata |-> Undefined]

(***************************************************************************)
(* ApiItemContainerMixin: the members of an API item.  An ApiItem is       *)
(* modelled by its canonicalReference and its sort key; the Map is the     *)
(* sequence of its entries in insertion order.                             *)
(***************************************************************************)
MaxMembers == 3          \* most members of a container

ApiItem(canonicalReference, sortKey) ==
    [canonicalReference |-> canonicalReference, sortKey |-> sortKey]

\* stands for undefined where an ApiItem is expected
NoApiItem == ApiItem("", "")

\* String.localeCompare on the sort keys of the model: "A" < "b" < "C"
LocaleRank(sortKey) ==
    CASE sortKey = "A" -> 1
      [] sortKey = "b" -> 2
      [] sortKey = "C" -> 3
      [] OTHER -> 0

localeCompare(x, y) ==
    IF LocaleRank(x) < LocaleRank(y) THEN -1
    ELSE IF LocaleRank(x) > LocaleRank(y) THEN 1 ELSE 0

\* Map.has, Map.get and Map.set
MapHas(map, key) == \E i \in 1..Len(map) : map[i].key = key

MapGet(map, key) ==
    IF MapHas(map, key)
    THEN map[CHOOSE i \in 1..Len(map) : map[i].key = key].value
    ELSE NoApiItem

MapSet(map, key, value) ==
    IF MapHas(map, key)
    THEN [i \in 1..Len(map) |-> IF map[i].key = key THEN [key |-> key, value |-> value]
                                ELSE map[i]]
    ELSE Append(map, [key |-> key, value |-> value])

\* Array.prototype.sort with the comparator of line 124: stable
RECURSIVE SortMembers(_)
SortMembers(items) ==
    IF Len(items) <= 1 THEN items
    ELSE LET last == items[Len(items)]
             front == SortMembers(SubSeq(items, 1, Len(items) - 1))
             keeps(x) == localeCompare(x.sortKey, last.sortKey) <= 0
             moves(x) == localeCompare(x.sortKey, last.sortKey) > 0
         IN  SelectSeq(front, keeps) \o <<last>> \o SelectSeq(front, moves)

\* the container: the fields of the object
Container(items, isSorted, map) ==
    [members |-> items, membersSorted |-> isSorted, membersByCanonicalReference |-> map]

This == Container(members, membersSorted, membersByCanonicalReference)

\* mutant: the member is added whatever is there already
AddMemberUnchecked(this, member) ==
    [thrown |-> FALSE,
     this |-> Container(Append(this.members, member), "false",
                        MapSet(this.membersByCanonicalReference,
                               member.canonicalReference, member))]

\* lines 131-139: addMember; the container after the call, and whether it threw
addMember(this, member) ==
    IF MapHas(this.membersByCanonicalReference, member.canonicalReference)
    THEN [thrown |-> TRUE, this |-> this]
    ELSE [thrown |-> FALSE,
          this |-> Container(Append(this.members, member), "false",
                             MapSet(this.membersByCanonicalReference,
                                    member.canonicalReference, member))]

\* mutant: the members are returned in the order they were added
GetMembersAsAdded(this) == [returned |-> this.members, this |-> this]

\* lines 122-129: get members; the flag is undefined until the first addMember
getMembers(this) ==
    IF this.membersSorted # "true"
    THEN LET sortedMembers == SortMembers(this.members)
         IN  [returned |-> sortedMembers,
              this |-> [this EXCEPT !.members = sortedMembers, !.membersSorted = "true"]]
    ELSE [returned |-> this.members, this |-> this]

\* lines 141-143
tryGetMember(this, canonicalReference) ==
    MapGet(this.membersByCanonicalReference, canonicalReference)

\* lines 108-120: the constructor, on options.members
RECURSIVE AddMembers(_, _)
AddMembers(this, optionsMembers) ==
    IF optionsMembers = <<>> THEN [thrown |-> FALSE, this |-> this]
    ELSE LET first == addMember(this, Head(optionsMembers))
         IN  IF first.thrown THEN first ELSE AddMembers(first.this, Tail(optionsMembers))

NewContainer(optionsMembers) ==
    AddMembers(Container(<<>>, "undefined", <<>>), optionsMembers)

ContainerResult(call, argument, returned, item, thrown) ==
    [call |-> call, argument |-> argument, returned |-> returned, item |-> item,
     thrown |-> thrown]

NoContainerResult == ContainerResult("none", NoApiItem, <<>>, NoApiItem, FALSE)

CanonicalReferences == {"a", "b", "c", "d"}

SortKeys == {"A", "b", "C"}

ApiItems == {ApiItem(r, k) : r \in CanonicalReferences, k \in SortKeys}

containerRest == <<eqVars, genVars, invokeVars>>

SetFields(this) ==
    /\ members' = this.members
    /\ membersSorted' = this.membersSorted
    /\ membersByCanonicalReference' = this.membersByCanonicalReference

\* a call of addMember
AddMember ==
    /\ \E member \in ApiItems :
         LET outcome == addMember(This, member)
         IN  /\ Len(members) < MaxMembers \/ member.canonicalReference \in
                    {members[i].canonicalReference : i \in 1..Len(members)}
             /\ SetFields(outcome.this)
             /\ containerResult' = ContainerResult("addMember", member, <<>>, NoApiItem,
                                                   outcome.thrown)
             /\ addedMembers' = IF outcome.thrown THEN addedMembers
                                ELSE addedMembers \cup {member}
    /\ UNCHANGED containerRest

\* a read of members
ReadMembers ==
    /\ LET outcome == getMembers(This)
       IN  /\ SetFields(outcome.this)
           /\ containerResult' = ContainerResult("members", NoApiItem, outcome.returned,
                                                 NoApiItem, FALSE)
    /\ UNCHANGED <<addedMembers, containerRest>>

\* a call of tryGetMember
TryGetMember ==
    /\ \E canonicalReference \in CanonicalReferences :
         containerResult' = ContainerResult("tryGetMember",
                                ApiItem(canonicalReference, ""), <<>>,
                                tryGetMember(This, canonicalReference), FALSE)
    /\ UNCHANGED <<members, membersSorted, membersByCanonicalReference, addedMembers,
                   containerRest>>

\* a container constructed with these options.members
ContainerOf(optionsMembers) ==
    /\ ~NewContainer(optionsMembers).thrown
    /\ members = NewContainer(optionsMembers).this.members
    /\ membersSorted = NewContainer(optionsMembers).this.membersSorted
    /\ membersByCanonicalReference =
           NewContainer(optionsMembers).this.membersByCanonicalReference
    /\ containerResult = NoContainerResult
    /\ addedMembers = {optionsMembers[i] : i \in 1..Len(optionsMembers)}

ContainerIdle == ContainerOf(<<>>)

(***************************************************************************)
(* Extractor.invoke.  The analysis, the generators, the message router and *)
(* the file system are seen through what invoke does with them.            *)
(***************************************************************************)
MaxMessages == 1   \* the most messages the analysis leaves to be shown at the end

NoFile == [exists |-> FALSE, content |-> <<>>]

File(content) == [exists |-> TRUE, content |-> content]

NoResult == [returned |-> FALSE, succeeded |-> FALSE, apiReportChanged |-> FALSE,
             errorCount |-> 0, warningCount |-> 0]

\* FileSystem.writeFile with convertLineEndings: NewlineKind.CrLf
ConvertToCrLf(text) ==
    LET lf == ConvertToLf(text)
    IN  Flatten([i \in 1..Len(lf) |-> IF lf[i] = "\n" THEN <<"\r", "\n">> ELSE <<lf[i]>>])

\* MessageRouter.logError, logWarning, logVerbose: console holds what was logged
ConsoleMessage(logLevel, messageId) == [logLevel |-> logLevel, messageId |-> messageId]

logError(router, messageId) ==
    [router EXCEPT !.errorCount = @ + 1,
                   !.console = Append(@, ConsoleMessage("error", messageId))]

logWarning(router, messageId) ==
    [router EXCEPT !.warningCount = @ + 1,
                   !.console = Append(@, ConsoleMessage("warning", messageId))]

logVerbose(router, messageId) ==
    [router EXCEPT !.console = Append(@, ConsoleMessage("verbose", messageId))]

NewMessageRouter ==
    [errorCount |-> 0, warningCount |-> 0, messages |-> <<>>, console |-> <<>>]

CountOf(messages, logLevel) ==
    Cardinality({i \in 1..Len(messages) : messages[i] = logLevel})

\* MessageRouter.handleRemainingNonConsoleMessages
handleRemainingNonConsoleMessages(router) ==
    [router EXCEPT !.errorCount = @ + CountOf(router.messages, "error"),
                   !.warningCount = @ + CountOf(router.messages, "warning"),
                   !.messages = <<>>]

\* line 172: options.localBuild || false
LocalBuild(invokeOptions) == invokeOptions.localBuild = "true"

invokeRest == <<eqVars, genVars, containerVars>>

Step(name) == artifacts' = Append(artifacts, name)

\* lines 174-196: the compiler state, the collector, the analysis, the enhancers and
\* the API model
InvokeAnalyze ==
    /\ invokePc = "start"
    /\ messageRouter' = [messageRouter EXCEPT !.messages = environment.analysisMessages]
    /\ artifacts' = artifacts \o <<"collector.analyze", "DocCommentEnhancer.analyze",
                                   "ValidationEnhancer.analyze", "buildApiPackage">>
    /\ invokePc' = "docModel"
    /\ UNCHANGED <<options, extractorConfig, environment, fileSystem, apiReportChanged,
                   extractorResult, invokeRest>>

\* lines 198-208
InvokeDocModel ==
    /\ invokePc = "docModel"
    /\ IF extractorConfig.docModelEnabled
       THEN /\ messageRouter' = logVerbose(messageRouter, "WritingDocModelFile")
            /\ fileSystem' = [fileSystem EXCEPT !.apiJson = TRUE]
            /\ Step("docModel")
       ELSE UNCHANGED <<messageRouter, fileSystem, artifacts>>
    /\ apiReportChanged' = FALSE
    /\ invokePc' = "report"
    /\ UNCHANGED <<options, extractorConfig, environment, extractorResult, invokeRest>>

\* mutant: the approved report is compared character by character
CompareWithExpectedExactly(files, router, localBuild, actualApiReportContent) ==
    IF actualApiReportContent # files.report.content
    THEN IF ~localBuild
         THEN [changed |-> TRUE,
               router |-> logWarning(router, "ApiReportNotCopied"), files |-> files]
         ELSE [changed |-> TRUE, router |-> logWarning(router, "ApiReportCopied"),
               files |-> [files EXCEPT !.report =
                              File(ConvertToCrLf(actualApiReportContent))]]
    ELSE [changed |-> FALSE,
          router |-> logVerbose(router, "ApiReportUnchanged"), files |-> files]

\* mutant: a local build leaves a different approved report as it is
CompareWithExpectedNeverCopied(files, router, localBuild, actualApiReportContent) ==
    IF ~areEquivalentApiFileContents(actualApiReportContent, files.report.content)
    THEN [changed |-> TRUE,
          router |-> logWarning(router, "ApiReportNotCopied"), files |-> files]
    ELSE [changed |-> FALSE,
          router |-> logVerbose(router, "ApiReportUnchanged"), files |-> files]

\* lines 228-256: the approved report exists
CompareWithExpected(files, router, localBuild, actualApiReportContent) ==
    LET expectedApiReportContent == files.report.content
    IN  IF ~areEquivalentApiFileContents(actualApiReportContent, expectedApiReportContent)
        THEN IF ~localBuild
             THEN [changed |-> TRUE,
                   router |-> logWarning(router, "ApiReportNotCopied"), files |-> files]
             ELSE [changed |-> TRUE, router |-> logWarning(router, "ApiReportCopied"),
                   files |-> [files EXCEPT !.report =
                                  File(ConvertToCrLf(actualApiReportContent)),
                                           !.reportFolder = TRUE]]
        ELSE [changed |-> FALSE,
          router |-> logVerbose(router, "ApiReportUnchanged"), files |-> files]

\* mutant: a production build says nothing of a missing approved report
CreateExpectedQuietly(files, router, localBuild, actualApiReportContent) ==
    IF ~localBuild
    THEN [changed |-> TRUE, router |-> router, files |-> files]
    ELSE IF ~files.reportFolder
    THEN [changed |-> TRUE, router |-> logError(router, "ApiReportFolderMissing"),
          files |-> files]
    ELSE [changed |-> TRUE, router |-> logWarning(router, "ApiReportCreated"),
          files |-> [files EXCEPT !.report = File(ConvertToCrLf(actualApiReportContent))]]

\* mutant: a production build creates the approved report too
CreateExpectedInProduction(files, router, localBuild, actualApiReportContent) ==
    IF ~files.reportFolder
    THEN [changed |-> TRUE,
          router |-> logError(router, "ApiReportFolderMissing"), files |-> files]
    ELSE [changed |-> TRUE, router |-> logWarning(router, "ApiReportCreated"),
          files |-> [files EXCEPT !.report = File(ConvertToCrLf(actualApiReportContent))]]

\* lines 257-287: the approved report does not exist
CreateExpected(files, router, localBuild, actualApiReportContent) ==
    IF ~localBuild
    THEN [changed |-> TRUE,
          router |-> logWarning(router, "ApiReportNotCopied"), files |-> files]
    ELSE IF ~files.reportFolder
    THEN [changed |-> TRUE,
          router |-> logError(router, "ApiReportFolderMissing"), files |-> files]
    ELSE [changed |-> TRUE, router |-> logWarning(router, "ApiReportCreated"),
          files |-> [files EXCEPT !.report = File(ConvertToCrLf(actualApiReportContent))]]

\* lines 212-289; generateReviewFileContent may throw an InternalError, which
\* invoke does not catch
InvokeReport ==
    /\ invokePc = "report"
    /\ IF extractorConfig.apiReportEnabled /\ environment.thrownBy = "report"
       THEN /\ invokePc' = "thrown"
            /\ UNCHANGED <<apiReportChanged, messageRouter, fileSystem, artifacts>>
       ELSE /\ invokePc' = "rollups"
            /\ IF extractorConfig.apiReportEnabled
               THEN LET actualApiReportContent == environment.actualApiReportContent
                        written == [fileSystem EXCEPT !.reportTemp =
                                        File(ConvertToCrLf(actualApiReportContent))]
                        outcome == IF written.report.exists
                                   THEN CompareWithExpected(written, messageRouter,
                                            LocalBuild(options), actualApiReportContent)
                                   ELSE CreateExpected(written, messageRouter,
                                            LocalBuild(options), actualApiReportContent)
                    IN  /\ apiReportChanged' = outcome.changed
                        /\ messageRouter' = outcome.router
                        /\ fileSystem' = outcome.files
                        /\ Step("report")
               ELSE UNCHANGED <<apiReportChanged, messageRouter, fileSystem, artifacts>>
    /\ UNCHANGED <<options, extractorConfig, environment, extractorResult, invokeRest>>

\* mutant: a rollup is written whatever its output path
GenerateRollupDtsFileAlways(written, outputPath, dtsKind) ==
    [rollups |-> Append(written.rollups, dtsKind),
     router |-> logVerbose(written.router, "WritingDtsRollup")]

\* lines 325-330: _generateRollupDtsFile, on the rollups written so far and the
\* message router: the message of line 327, then the rollup
generateRollupDtsFile(written, outputPath, dtsKind) ==
    IF outputPath # ""
    THEN [rollups |-> Append(written.rollups, dtsKind),
          router |-> logVerbose(written.router, "WritingDtsRollup")]
    ELSE written

\* DtsRollupGenerator.writeTypingsFile throws an InternalError for this rollup
RollupThrows(outputPath, dtsKind) ==
    outputPath # "" /\ environment.thrownBy = dtsKind

\* lines 292-294: the three calls in their order, up to the first that throws;
\* the call that throws has logged its message (line 327) before
GenerateRollups(config, router) ==
    LET none == [rollups |-> <<>>, router |-> router]
        thrownAfter(written) ==
            [rollups |-> written.rollups,
             router |-> logVerbose(written.router, "WritingDtsRollup"), thrown |-> TRUE]
    IN  IF RollupThrows(config.publicTrimmedFilePath, "PublicRelease")
        THEN thrownAfter(none)
        ELSE LET public == generateRollupDtsFile(none, config.publicTrimmedFilePath,
                                                 "PublicRelease")
             IN  IF RollupThrows(config.betaTrimmedFilePath, "BetaRelease")
                 THEN thrownAfter(public)
                 ELSE LET beta == generateRollupDtsFile(public, config.betaTrimmedFilePath,
                                                        "BetaRelease")
                      IN  IF RollupThrows(config.untrimmedFilePath, "InternalRelease")
                          THEN thrownAfter(beta)
                          ELSE LET internal == generateRollupDtsFile(beta,
                                       config.untrimmedFilePath, "InternalRelease")
                               IN  [rollups |-> internal.rollups,
                                    router |-> internal.router, thrown |-> FALSE]

\* mutant: a rollup that throws is left out and the other rollups are written
InvokeRollupsContinuing ==
    /\ invokePc = "rollups"
    /\ IF extractorConfig.rollupEnabled
       THEN LET kept(dtsKind) == dtsKind # environment.thrownBy
                all == generateRollupDtsFile(
                           generateRollupDtsFile(
                               generateRollupDtsFile(
                                   [rollups |-> <<>>, router |-> messageRouter],
                                   extractorConfig.publicTrimmedFilePath, "PublicRelease"),
                               extractorConfig.betaTrimmedFilePath, "BetaRelease"),
                           extractorConfig.untrimmedFilePath, "InternalRelease")
                written == SelectSeq(all.rollups, kept)
            IN  /\ fileSystem' = [fileSystem EXCEPT !.rollups = @ \o written]
                /\ artifacts' = artifacts \o written
                /\ messageRouter' = all.router
                /\ invokePc' = IF GenerateRollups(extractorConfig, messageRouter).thrown
                               THEN "thrown" ELSE "tsdocMetadata"
       ELSE /\ invokePc' = "tsdocMetadata"
            /\ UNCHANGED <<fileSystem, artifacts, messageRouter>>
    /\ UNCHANGED <<options, extractorConfig, environment, apiReportChanged,
                   extractorResult, invokeRest>>

\* lines 291-295; an InternalError of a rollup is not caught
InvokeRollups ==
    /\ invokePc = "rollups"
    /\ IF extractorConfig.rollupEnabled
       THEN LET outcome == GenerateRollups(extractorConfig, messageRouter)
            IN  /\ fileSystem' = [fileSystem EXCEPT !.rollups = @ \o outcome.rollups]
                /\ artifacts' = artifacts \o outcome.rollups
                /\ messageRouter' = outcome.router
                /\ invokePc' = IF outcome.thrown THEN "thrown" ELSE "tsdocMetadata"
       ELSE /\ invokePc' = "tsdocMetadata"
            /\ UNCHANGED <<fileSystem, artifacts, messageRouter>>
    /\ UNCHANGED <<options, extractorConfig, environment, apiReportChanged,
                   extractorResult, invokeRest>>

\* lines 297-300
InvokeTsdocMetadata ==
    /\ invokePc = "tsdocMetadata"
    /\ IF extractorConfig.tsdocMetadataEnabled
       THEN /\ fileSystem' = [fileSystem EXCEPT !.tsdocMetadata = TRUE]
            /\ Step("tsdocMetadata")
       ELSE UNCHANGED <<fileSystem, artifacts>>
    /\ invokePc' = "messages"
    /\ UNCHANGED <<options, extractorConfig, environment, messageRouter, apiReportChanged,
                   extractorResult, invokeRest>>

\* lines 302-303
InvokeHandleRemaining ==
    /\ invokePc = "messages"
    /\ messageRouter' = handleRemainingNonConsoleMessages(messageRouter)
    /\ invokePc' = "return"
    /\ UNCHANGED <<options, extractorConfig, environment, fileSystem, apiReportChanged,
                   artifacts, extractorResult, invokeRest>>

\* mutant: a local build is judged like a production build
DetermineSuccessStrict(localBuild, router) ==
    router.errorCount + router.warningCount = 0

\* lines 305-313
DetermineSuccess(localBuild, router) ==
    IF localBuild
    THEN router.errorCount = 0
    ELSE router.errorCount + router.warningCount = 0

\* lines 305-322
InvokeReturn ==
    /\ invokePc = "return"
    /\ extractorResult' = [returned |-> TRUE,
                  succeeded |-> DetermineSuccess(LocalBuild(options), messageRouter),
                  apiReportChanged |-> apiReportChanged,
                  errorCount |-> messageRouter.errorCount,
                  warningCount |-> messageRouter.warningCount]
    /\ invokePc' = "returned"
    /\ UNCHANGED <<options, extractorConfig, environment, fileSystem, messageRouter,
                   apiReportChanged, artifacts, invokeRest>>

\* Extractor.invoke is called once more with the same arguments, on the files
\* the first call left
InvokeAgain ==
    /\ invokePc = "returned"
    /\ \A i \in 1..Len(artifacts) : artifacts[i] # "Extractor.invoke"
    /\ invokePc' = "start"
    /\ messageRouter' = NewMessageRouter
    /\ apiReportChanged' = FALSE
    /\ extractorResult' = NoResult
    /\ Step("Extractor.invoke")
    /\ UNCHANGED <<options, extractorConfig, environment, fileSystem, invokeRest>>

(***************************************************************************)
(* The invocations: every combination of the options and the switches of   *)
(* the configuration, an approved report that is missing, equivalent to    *)
(* the generated one or different, and what the analysis left to be shown. *)
(***************************************************************************)
InvokeOptions == [localBuild : {"true", "false", "undefined"}]

ExtractorConfigs ==
    [apiReportEnabled : BOOLEAN, docModelEnabled : BOOLEAN, rollupEnabled : BOOLEAN,
     publicTrimmedFilePath : {"", "public.d.ts"}, betaTrimmedFilePath : {"", "beta.d.ts"},
     untrimmedFilePath : {"", "index.d.ts"}, tsdocMetadataEnabled : BOOLEAN]

LogLevels == {"error", "warning", "none"}

GeneratedReports == {<<"a", "\n">>, <<"b", "\n">>}

ApprovedReports == {<<"a", "\r", "\n">>, <<"a", "\n">>, <<"b", " ", "\n">>}

Throwers == {"report", "PublicRelease", "BetaRelease", "InternalRelease"}

\* the generators all work, or one of them throws
Environments ==
    [analysisMessages : StringsUpTo(LogLevels, MaxMessages),
     actualApiReportContent : GeneratedReports, thrownBy : {"none"}]
    \cup [analysisMessages : {<<>>}, actualApiReportContent : GeneratedReports,
          thrownBy : Throwers]

NewFileSystem(report, reportFolder) ==
    [reportTemp |-> NoFile, report |-> report, reportFolder |-> reportFolder,
     apiJson |-> FALSE, rollups |-> <<>>, tsdocMetadata |-> FALSE]

\* the folder of an approved report that exists exists
FileSystems ==
    {files \in {NewFileSystem(report, folder) :
                    report \in {NoFile} \cup {File(c) : c \in ApprovedReports},
                    folder \in BOOLEAN} :
        files.report.exists => files.reportFolder}

InvokeAt(position) ==
    /\ options \in InvokeOptions
    /\ extractorConfig \in ExtractorConfigs
    /\ environment \in Environments
    /\ fileSystem \in FileSystems
    /\ messageRouter = NewMessageRouter
    /\ invokePc = position
    /\ apiReportChanged = FALSE
    /\ artifacts = <<>>
    /\ extractorResult = NoResult

InvokeIdle ==
    /\ options = [localBuild |-> "undefined"]
    /\ extractorConfig = [apiReportEnabled |-> FALSE, docModelEnabled |-> FALSE,
                          rollupEnabled |-> FALSE, publicTrimmedFilePath |-> "",
                          betaTrimmedFilePath |-> "", untrimmedFilePath |-> "",
                          tsdocMetadataEnabled |-> FALSE]
    /\ environment = [analysisMessages |-> <<>>, actualApiReportContent |-> <<>>,
                      thrownBy |-> "none"]
    /\ fileSystem = NewFileSystem(NoFile, FALSE)
    /\ messageRouter = NewMessageRouter
    /\ invokePc = "idle"
    /\ apiReportChanged = FALSE
    /\ artifacts = <<>>
    /\ extractorResult = NoResult

RestIdle == InvokeIdle /\ ContainerIdle

(***************************************************************************)
(* The collectors generateReviewFileContent is run on: an imported entity  *)
(* Imp, a class Foo of one or more merged declarations with a member prop  *)
(* of type typeRef, and a variable bar.  The declarations of Foo are 1..n, *)
(* their members n+1..2n, bar's declaration is 2n+1.                       *)
(***************************************************************************)
MaxDeclarations == 2     \* most declarations of one symbol

MaxStarExports == 2      \* most star-exported external module paths

StarPaths == <<"m1", "m2", "m3", "m4">>

WarningText == <<"(ae-forgotten-export)", " ", "oops">>

\* a message of two lines, the first ending in a space, the second in a tab
UntidyWarningText == <<"(ae-untidy)", " ", "\r", "\n", "more", "\t">>

TypeEntity(typeRef) == IF typeRef = "string" THEN "" ELSE typeRef

ImpEntity(p) ==
    ImportEntity("Imp", AstImport(p.importKind, "lib", <<"Imp">>, FALSE),
                 p.importNameForEmit, p.importExportNames, p.importPreferred)

FooEntity(p) ==
    SymbolEntity("Foo", p.fooNameForEmit, p.fooExportNames, p.fooInline,
                 [i \in 1..p.fooDeclarations |-> i])

BarEntity(p) ==
    SymbolEntity("bar", "bar", p.barExportNames, p.barInline, <<2 * p.fooDeclarations + 1>>)

CollectorDeclarations(p) ==
    LET n == p.fooDeclarations
    IN  [d \in 1..(2 * n + 1) |->
            IF d <= n
            THEN AstDeclaration(ClassTree("Foo", p.braceSeparator, p.typeRef,
                                          TypeEntity(p.typeRef), n + d),
                                FALSE, "Foo", MetadataProfiles[p.fooMetadata], FALSE,
                                FALSE, <<>>)
            ELSE IF d <= 2 * n
            THEN AstDeclaration(<<>>, p.memberPrivate, "prop",
                                MetadataProfiles[p.memberMetadata], FALSE, FALSE, <<>>)
            ELSE AstDeclaration(VariableTree("bar", p.typeRef, TypeEntity(p.typeRef)),
                                FALSE, "bar", MetadataProfiles["tagged"], FALSE,
                                TRUE, <<"const", " ">>)]

MakeCollector(p) ==
    [workingPackage |-> [name |-> "pkg", tsdocComment |-> p.tsdocComment],
     entities |-> IF p.importLast THEN <<FooEntity(p), BarEntity(p), ImpEntity(p)>>
                  ELSE <<ImpEntity(p), FooEntity(p), BarEntity(p)>>,
     starExportedExternalModulePaths |-> SubSeq(StarPaths, 1, p.starExports),
     declarations |-> CollectorDeclarations(p),
     messages |-> p.messages]

BaseParams ==
    [importLast |-> FALSE, importKind |-> "NamedImport", importNameForEmit |-> "Imp",
     importExportNames |-> <<>>, importPreferred |-> FALSE, fooNameForEmit |-> "Foo",
     fooExportNames |-> <<"Foo">>, fooInline |-> TRUE, fooDeclarations |-> 1,
     fooMetadata |-> "tagged", memberPrivate |-> FALSE, memberMetadata |-> "plain",
     typeRef |-> "Imp", braceSeparator |-> <<"\n">>, barExportNames |-> <<"bar">>,
     barInline |-> TRUE, starExports |-> 0, tsdocComment |-> "comment", messages |-> <<>>]

\* what is exported how, in which order
OrderParams ==
    {[BaseParams EXCEPT !.importLast = p[1], !.importExportNames = p[2],
                        !.fooExportNames = p[3], !.fooInline = p[4],
                        !.fooDeclarations = p[5], !.barExportNames = p[6],
                        !.barInline = p[7], !.starExports = p[8]] :
       p \in BOOLEAN \X {<<>>, <<"Imp">>}
             \X {<<>>, <<"Foo">>, <<"default">>, <<"Foo", "Alias">>} \X BOOLEAN
             \X (1..MaxDeclarations) \X {<<>>, <<"bar">>} \X BOOLEAN
             \X (0..MaxStarExports)}

MessageLists(n) ==
    {<<>>,
     <<Message(1, "", WarningText)>>,
     <<Message(1, "Foo", WarningText), Message(0, "", UntidyWarningText)>>,
     <<Message(0, "", WarningText)>>,
     <<Message(n + 1, "", UntidyWarningText), Message(1, "", UntidyWarningText)>>}

\* what the text is made of: white space in the source, warnings, synopses
TextParams ==
    {[BaseParams EXCEPT !.braceSeparator = p[1], !.messages = p[2], !.tsdocComment = p[3],
                        !.fooMetadata = p[4], !.memberMetadata = p[5],
                        !.memberPrivate = p[6], !.fooInline = p[7]] :
       p \in {<<"\n">>, <<" ", "\n">>, <<"\t", "\n">>, <<" ", "\t", " ", "\r", "\n">>,
              <<" ", " ", "U+2028">>}
             \X MessageLists(1) \X {Undefined, "comment"}
             \X {"plain", "full", "untagged"} \X {"plain", "tagged"} \X BOOLEAN \X BOOLEAN}

\* which names are emitted: renamed entities, resolved and unresolved identifiers
NameParams ==
    {[BaseParams EXCEPT !.importKind = p[1], !.importNameForEmit = p[2],
                        !.importPreferred = p[3], !.fooNameForEmit = p[4],
                        !.typeRef = p[5], !.fooInline = p[6], !.importLast = p[7]] :
       p \in {"DefaultImport", "NamedImport", "StarImport"} \X {"Imp", "Imp_1"} \X BOOLEAN
             \X {"Foo", "Foo_1"} \X {"string", "Imp", "bar", "Foo"} \X BOOLEAN \X BOOLEAN}

Collectors == {MakeCollector(p) : p \in OrderParams \cup TextParams \cup NameParams}

(***************************************************************************)
(* The specification of generateReviewFileContent                          *)
(***************************************************************************)
NoCollector ==
    [workingPackage |-> [name |-> "", tsdocComment |-> Undefined], entities |-> <<>>,
     starExportedExternalModulePaths |-> <<>>, declarations |-> <<>>, messages |-> <<>>]

EquivIdle ==
    /\ actualFileContent = <<>>
    /\ expectedFileContent = <<>>
    /\ otherFileContent = <<>>
    /\ equivalent = NoComparisons
    /\ eqPc = "idle"

GeneratorAt(position, collectors) ==
    /\ collector \in collectors
    /\ handledMessages = {}
    /\ stringWriter = <<>>
    /\ pc = position
    /\ importsEmitted = FALSE
    /\ entityIndex = 1
    /\ declarationIndex = 1
    /\ exportsToEmit = <<>>
    /\ exportIndex = 1
    /\ modification = <<>>
    /\ stack = <<>>
    /\ visited = <<>>
    /\ failure = "none"
    /\ reviewFileContent = <<>>
    /\ sections = <<>>

Init == EquivIdle /\ GeneratorAt("start", Collectors) /\ RestIdle

Next ==
    \/ WriteHeader
    \/ EmitImportStep
    \/ EndImports
    \/ BeginEntity
    \/ BeginDeclaration
    \/ ModifySpanChild
    \/ ModifySpanReturn
    \/ WriteDeclaration
    \/ EndDeclarations
    \/ EmitExportStep
    \/ EndEntity
    \/ EmitStarExports
    \/ WriteTrailer

Spec == Init /\ [][Next]_vars

(***************************************************************************)
(* The specifications of the comparison of report contents                 *)
(***************************************************************************)
InitEquiv ==
    /\ \/ /\ actualFileContent \in StringsUpTo(ReportChars, MaxLen)
          /\ expectedFileContent \in StringsUpTo(ReportChars, MaxLen)
       \/ /\ actualFileContent \in StringsUpTo(WideChars, MaxRelLen)
          /\ expectedFileContent \in StringsUpTo(WideChars, MaxRelLen)
    /\ otherFileContent = <<>>
    /\ equivalent = NoComparisons
    /\ eqPc = "call"
    /\ GeneratorAt("idle", {NoCollector})
    /\ RestIdle

NextEquiv == CompareContents

SpecEquiv == InitEquiv /\ [][NextEquiv]_vars

InitEquivRel ==
    /\ actualFileContent \in StringsUpTo(RelChars, MaxRelLen)
    /\ expectedFileContent \in StringsUpTo(RelChars, MaxRelLen)
    /\ otherFileContent \in StringsUpTo(RelChars, MaxRelLen)
    /\ equivalent = NoComparisons
    /\ eqPc = "call"
    /\ GeneratorAt("idle", {NoCollector})
    /\ RestIdle

SpecEquivRel == InitEquivRel /\ [][NextEquiv]_vars

(***************************************************************************)
(* The specification of the import and export statements: the report of a  *)
(* package whose entities are two imports of the same local name, the      *)
(* first from module 'a' and possibly re-exported, the second a default    *)
(* import from module 'b'.  The Collector gives the entities names for     *)
(* emit that differ from one another.                                      *)
(***************************************************************************)
\* AstImport.exportName of each kind of import; an ImportType may have none
ExportNamesOf(importKind) ==
    IF importKind = "ImportType"
    THEN {<<>>, <<"X">>, <<"X", "A">>, <<"Y", "A", "B">>}
    ELSE {<<"X">>, <<"Y">>}

NamesForEmit == {"X", "X_1"}

ReExportNames == {<<>>, <<"X">>, <<"default">>, <<"default", "X", "Z">>}

\* AstImport.localName
ImportLocalName(exportName) == IF exportName = <<>> THEN "" ELSE exportName[1]

MakeEmitCollector(importKind, exportName, typeOnly, nameForEmit, exportNames, otherName) ==
    [workingPackage |-> [name |-> "pkg", tsdocComment |-> "comment"],
     entities |->
         <<ImportEntity(ImportLocalName(exportName),
                        AstImport(importKind, "a", exportName, typeOnly),
                        nameForEmit, exportNames, FALSE),
           ImportEntity("X", AstImport("DefaultImport", "b", <<"X">>, FALSE),
                        otherName, <<>>, FALSE)>>,
     starExportedExternalModulePaths |-> <<>>,
     declarations |-> <<>>,
     messages |-> <<>>]

EmitParams ==
    {p \in ImportKinds \X (ExportNamesOf("ImportType") \cup ExportNamesOf("NamedImport"))
            \X BOOLEAN \X NamesForEmit \X ReExportNames \X {"X", "X_1", "X_2"} :
        p[2] \in ExportNamesOf(p[1]) /\ p[6] # p[4]}

EmitCollectors == {MakeEmitCollector(p[1], p[2], p[3], p[4], p[5], p[6]) : p \in EmitParams}

InitEmit == EquivIdle /\ GeneratorAt("start", EmitCollectors) /\ RestIdle

NextEmit ==
    \/ WriteHeader
    \/ EmitImportStep
    \/ EndImports
    \/ BeginEntity
    \/ EndDeclarations
    \/ EmitExportStep
    \/ EndEntity
    \/ EmitStarExports
    \/ WriteTrailer

SpecEmit == InitEmit /\ [][NextEmit]_vars

(***************************************************************************)
(* DtsHelpers.modifySpanTypeArgumentsAndGetText and                        *)
(* DtsHelpers.modifyImportTypeSpan.  The callback modifyNestedSpan is the  *)
(* caller's: it is one of NestedSpanModifiers.                             *)
(***************************************************************************)
NestedSpanModifiers == {"keep", "rename"}

RECURSIVE Descendants(_, _)
Descendants(tree, s) ==
    {s} \cup UNION {Descendants(tree, tree[s].children[i]) : i \in 1..Len(tree[s].children)}

\* a caller's callback that renames the identifiers of known entities below the span
RenameNestedSpan(mod, entities, tree, childSpan) ==
    [d \in 1..Len(mod) |->
        IF /\ d \in Descendants(tree, childSpan)
           /\ tree[d].kind = "Identifier"
           /\ tryGetEntityForNode(entities, tree[d]) # 0
        THEN [mod[d] EXCEPT !.prefix =
                 <<entities[tryGetEntityForNode(entities, tree[d])].nameForEmit>>]
        ELSE mod[d]]

\* modifyNestedSpan(childSpan, childAstDeclaration)
ApplyNestedSpan(modifyNestedSpan, mod, entities, tree, childSpan) ==
    IF modifyNestedSpan = "rename" THEN RenameNestedSpan(mod, entities, tree, childSpan)
    ELSE mod

\* Array.prototype.findIndex on span.children, counted from 1; 0 when none is found
FindIndexOfKind(tree, children, kind) ==
    IF \E i \in 1..Len(children) : tree[children[i]].kind = kind
    THEN CHOOSE i \in 1..Len(children) :
             /\ tree[children[i]].kind = kind
             /\ \A j \in 1..(i - 1) : tree[children[j]].kind # kind
    ELSE 0

RECURSIVE ApplyToEach(_, _, _, _, _)
ApplyToEach(modifyNestedSpan, mod, entities, tree, spans) ==
    IF spans = <<>> THEN mod
    ELSE ApplyToEach(modifyNestedSpan,
                     ApplyNestedSpan(modifyNestedSpan, mod, entities, tree, spans[1]),
                     entities, tree, Tail(spans))

\* Array.prototype.join on texts
RECURSIVE JoinTexts(_, _)
JoinTexts(texts, separator) ==
    IF texts = <<>> THEN <<>>
    ELSE IF Len(texts) = 1 THEN texts[1]
    ELSE texts[1] \o separator \o JoinTexts(Tail(texts), separator)

TypeArguments(text, mod, thrown) == [text |-> text, modification |-> mod, thrown |-> thrown]

\* mutant: the positions of the delimiters are not checked
ModifySpanTypeArgumentsUnchecked(mod, entities, tree, span, modifyNestedSpan) ==
    IF tree[span].typeArguments <= 0
    THEN TypeArguments(<<>>, mod, "none")
    ELSE LET children == tree[span].children
             lessThanTokenPos == FindIndexOfKind(tree, children, "LessThanToken")
             greaterThanTokenPos == FindIndexOfKind(tree, children, "GreaterThanToken")
             typeArgumentsSpans ==
                 SubSeq(children, lessThanTokenPos + 1, greaterThanTokenPos - 1)
             modified == ApplyToEach(modifyNestedSpan, mod, entities, tree,
                                     typeArgumentsSpans)
             typeArgumentsStrings ==
                 [i \in 1..Len(typeArgumentsSpans) |->
                     ModifiedText(tree, modified, typeArgumentsSpans[i])]
         IN  TypeArguments(<<"<">> \o JoinTexts(typeArgumentsStrings, <<",", " ">>)
                           \o <<">">>,
                           modified, "none")

modifySpanTypeArgumentsAndGetText(mod, entities, tree, span, modifyNestedSpan) ==
    IF tree[span].typeArguments <= 0
    THEN TypeArguments(<<>>, mod, "none")
    ELSE LET children == tree[span].children
             lessThanTokenPos == FindIndexOfKind(tree, children, "LessThanToken")
             greaterThanTokenPos == FindIndexOfKind(tree, children, "GreaterThanToken")
         IN  IF lessThanTokenPos < 1 \/ greaterThanTokenPos <= lessThanTokenPos
             THEN TypeArguments(<<>>, mod, "Invalid type arguments")
             ELSE LET typeArgumentsSpans ==
                          SubSeq(children, lessThanTokenPos + 1, greaterThanTokenPos - 1)
                      modified == ApplyToEach(modifyNestedSpan, mod, entities, tree,
                                              typeArgumentsSpans)
                      typeArgumentsStrings ==
                          [i \in 1..Len(typeArgumentsSpans) |->
                              ModifiedText(tree, modified, typeArgumentsSpans[i])]
                  IN  TypeArguments(<<"<">> \o JoinTexts(typeArgumentsStrings, <<",", " ">>)
                                    \o <<">">>,
                                    modified, "none")

\* node.qualifier?.getText() ?? ''
QualifiersText(tree, span) ==
    LET children == tree[span].children
        qualifiers == {i \in 1..Len(children) :
                          tree[children[i]].kind \in {"QualifiedName", "Identifier"}}
    IN  IF qualifiers = {} THEN <<>>
        ELSE tree[children[CHOOSE i \in qualifiers : TRUE]].prefix

\* qualifiersText.indexOf('.'), counted from 1; 0 when there is no dot
IndexOfDot(text) ==
    IF \E i \in 1..Len(text) : text[i] = "."
    THEN CHOOSE i \in 1..Len(text) : text[i] = "." /\ \A j \in 1..(i - 1) : text[j] # "."
    ELSE 0

\* lines 166-170
NestedQualifiersText(qualifiersText) ==
    LET nestedQualifiersStart == IndexOfDot(qualifiersText)
    IN  IF nestedQualifiersStart >= 1
        THEN SubSeq(qualifiersText, nestedQualifiersStart, Len(qualifiersText))
        ELSE <<>>

Modified(mod, thrown) == [modification |-> mod, thrown |-> thrown]

modifyImportTypeSpan(mod, entities, tree, span, modifyNestedSpan) ==
    LET referencedEntity == tryGetEntityForNode(entities, tree[span])
    IN  IF referencedEntity = 0 THEN Modified(mod, "none")
        ELSE IF IsUndefined(entities[referencedEntity].nameForEmit)
        THEN Modified(mod, "referencedEntry.nameForEmit is undefined")
        ELSE LET entity == entities[referencedEntity]
                 typeArguments == modifySpanTypeArgumentsAndGetText(
                                      mod, entities, tree, span, modifyNestedSpan)
                 replacement ==
                     IF /\ entity.isAstImport
                        /\ entity.astImport.importKind = "ImportType"
                        /\ entity.astImport.exportName # <<>>
                     THEN <<entity.nameForEmit>>
                          \o NestedQualifiersText(QualifiersText(tree, span))
                          \o typeArguments.text
                     ELSE <<entity.nameForEmit>> \o typeArguments.text
             IN  IF typeArguments.thrown # "none"
                 THEN Modified(typeArguments.modification, typeArguments.thrown)
                 ELSE Modified([typeArguments.modification EXCEPT
                                   ![span] = [SkipAll(@) EXCEPT !.prefix = replacement]],
                               "none")

(***************************************************************************)
(* The specification of an import-type reference: import('mod'), then the  *)
(* qualifier, then the type arguments.  The reference resolves to an       *)
(* ImportType entity whose exportName is the qualifier, to a symbol of the *)
(* package, or to no entity; its import is emitted, then the reference is  *)
(* rewritten and written.                                                  *)
(***************************************************************************)
Qualifiers == {<<>>, <<"NS">>, <<"NS", "A">>, <<"NS", "A", "B">>}

\* type arguments: none, <T>, <T, U>, and the malformed T> (no `<`), <T (no `>`)
\* and >T< (the `>` first)
TypeArgumentShapes == {"none", "one", "two", "broken", "unclosed", "reversed"}

\* the children of the ImportType node
ReferenceChildren(qualifier, shape) ==
    <<2, 3, 4, 5>>
    \o (IF qualifier = <<>> THEN <<>> ELSE <<6, 7>>)
    \o (CASE shape = "none" -> <<>>
          [] shape = "broken" -> <<9, 15>>
          [] shape = "unclosed" -> <<8, 9>>
          [] shape = "reversed" -> <<15, 9, 8>>
          [] OTHER -> <<8, 9, 15>>)

ImportTypeTree(qualifier, shape, referenced) ==
    << [Inner("ImportType", 0, ReferenceChildren(qualifier, shape), 0, <<>>)
           EXCEPT !.entity = referenced,
                  !.typeArguments = CASE shape = "none" -> 0
                                      [] shape = "two" -> 2
                                      [] OTHER -> 1],
       Token("ImportKeyword", 1, "import", <<>>, ""),
       Token("OpenParenToken", 1, "(", <<>>, ""),
       Token("LiteralType", 1, "'mod'", <<>>, ""),
       Token("CloseParenToken", 1, ")", <<>>, ""),
       Token("DotToken", 1, ".", <<>>, ""),
       [Token(IF Len(qualifier) > 1 THEN "QualifiedName" ELSE "Identifier", 1, "", <<>>, "")
           EXCEPT !.prefix = Join(qualifier, <<".">>)],
       Token("LessThanToken", 1, "<", <<>>, ""),
       Inner("SyntaxList", 1, IF shape = "two" THEN <<10, 12, 13>> ELSE <<10>>, 0, <<>>),
       Inner("TypeReference", 9, <<11>>, 0, <<>>),
       Token("Identifier", 10, "T", <<>>, "T"),
       Token("CommaToken", 9, ",", <<" ">>, ""),
       Inner("TypeReference", 9, <<14>>, 0, <<>>),
       Token("Identifier", 13, "U", <<>>, ""),
       Token("GreaterThanToken", 1, ">", <<>>, "") >>

ReferencedEntities(qualifier) ==
    {ImportEntity("ref", AstImport("ImportType", "mod", qualifier, typeOnly),
                  nameForEmit, <<>>, FALSE) :
        typeOnly \in BOOLEAN, nameForEmit \in {"NS", "NS_1"}}
    \cup {SymbolEntity("ref", "Local", <<>>, FALSE, <<>>)}

MakeReferenceCollector(qualifier, shape, referenced, entity) ==
    [workingPackage |-> [name |-> "pkg", tsdocComment |-> "comment"],
     entities |-> <<entity, SymbolEntity("T", "T_1", <<"T">>, TRUE, <<>>)>>,
     starExportedExternalModulePaths |-> <<>>,
     declarations |-> <<AstDeclaration(ImportTypeTree(qualifier, shape, referenced),
                                       FALSE, "T", MetadataProfiles["plain"], FALSE,
                                       FALSE, <<>>)>>,
     messages |-> <<>>]

ReferenceCollectors ==
    UNION {{MakeReferenceCollector(p[1], p[2], p[3], entity) :
               entity \in ReferencedEntities(p[1])} :
           p \in Qualifiers \X TypeArgumentShapes \X {"ref", ""}}

ReferenceTree == collector.declarations[1].declaration

\* the import of the referenced entity is emitted, as in the loop over the imports
EmitReferencedImport ==
    /\ pc = "reference"
    /\ LET entity == Entities[1]
           emitted == emitImport(entity, entity.astImport)
       IN  IF entity.isAstImport
           THEN /\ stringWriter' = stringWriter \o emitted.written
                /\ sections' = Append(sections,
                       Section("import", 1, entity.nameForEmit, Len(stringWriter) + 1,
                               Len(stringWriter) + 1,
                               Len(stringWriter) + Len(emitted.written)))
           ELSE UNCHANGED <<stringWriter, sections>>
    /\ pc' = "rewrite"
    /\ UNCHANGED <<collector, handledMessages, loopVars, spanVars, failure,
                   reviewFileContent, eqVars, restVars>>

\* new Span(node) and modifyImportTypeSpan on it, with one of the callbacks
ModifyImportTypeSpan ==
    /\ pc = "rewrite"
    /\ \E modifyNestedSpan \in NestedSpanModifiers :
         LET result == modifyImportTypeSpan(NewSpan(ReferenceTree), Entities,
                                            ReferenceTree, 1, modifyNestedSpan)
         IN  /\ modification' = result.modification
             /\ visited' = <<1>>
             /\ sections' = Append(sections,
                    Section("reference", 1, modifyNestedSpan, 0, 0, 0))
             /\ IF result.thrown = "none"
                THEN pc' = "rewritten" /\ UNCHANGED failure
                ELSE Fail(result.thrown)
    /\ UNCHANGED <<collector, handledMessages, stringWriter, loopVars, stack,
                   reviewFileContent, eqVars, restVars>>

\* span.writeModifiedText
WriteReference ==
    /\ pc = "rewritten"
    /\ stringWriter' = stringWriter \o ModifiedText(ReferenceTree, modification, 1)
    /\ sections' = [sections EXCEPT ![Len(sections)].start = Len(stringWriter) + 1,
                                    ![Len(sections)].textStart = Len(stringWriter) + 1,
                                    ![Len(sections)].end = Len(stringWriter')]
    /\ pc' = "done"
    /\ UNCHANGED <<collector, handledMessages, loopVars, spanVars, failure,
                   reviewFileContent, eqVars, restVars>>

InitImportType ==
    EquivIdle /\ GeneratorAt("reference", ReferenceCollectors) /\ RestIdle

NextImportType ==
    \/ EmitReferencedImport
    \/ ModifyImportTypeSpan
    \/ WriteReference

SpecImportType == InitImportType /\ [][NextImportType]_vars

(***************************************************************************)
(* The specification of the rewriting of names: generateReviewFileContent  *)
(* on collectors whose entities may lack a nameForEmit, and                *)
(* modifyImportTypeSpan on references to entities that may lack one.       *)
(***************************************************************************)
\* which entities lack a name, and which identifiers refer to them
NamelessParams ==
    {[BaseParams EXCEPT !.importNameForEmit = p[1], !.fooNameForEmit = p[2],
                        !.typeRef = p[3], !.importLast = p[4], !.fooInline = p[5],
                        !.memberPrivate = p[6]] :
       p \in {"Imp", Undefined} \X {"Foo", Undefined} \X {"string", "Imp", "bar", "Foo"}
             \X BOOLEAN \X BOOLEAN \X BOOLEAN}

NamelessCollectors == {MakeCollector(p) : p \in NamelessParams}

NamelessReferencedEntities(qualifier) ==
    {[entity EXCEPT !.nameForEmit = nameForEmit] :
        entity \in ReferencedEntities(qualifier), nameForEmit \in {"NS", Undefined}}

NamelessReferenceCollectors ==
    UNION {{MakeReferenceCollector(p[1], p[2], p[3], entity) :
               entity \in NamelessReferencedEntities(p[1])} :
           p \in Qualifiers \X TypeArgumentShapes \X {"ref", ""}}

InitRewrite ==
    /\ EquivIdle
    /\ RestIdle
    /\ \/ GeneratorAt("start", NamelessCollectors)
       \/ GeneratorAt("reference", NamelessReferenceCollectors)

NextRewrite ==
    \/ WriteHeader
    \/ EmitImportStep
    \/ EndImports
    \/ BeginEntity
    \/ BeginDeclaration
    \/ ModifySpanChild
    \/ ModifySpanReturn
    \/ WriteDeclaration
    \/ EndDeclarations
    \/ EmitExportStep
    \/ EndEntity
    \/ EmitStarExports
    \/ WriteTrailer
    \/ EmitReferencedImport
    \/ ModifyImportTypeSpan
    \/ WriteReference

SpecRewrite == InitRewrite /\ [][NextRewrite]_vars

(***************************************************************************)
(* The specification of generateReviewFileContent on declarations with     *)
(* several members.  The entities are the import Imp, the class Foo of one *)
(* or more merged declarations, each with a getter, its ancillary setter   *)
(* and a property, the variable bar and the namespace NS of two functions. *)
(* With n declarations of Foo, these are 1..n, the members of the d-th are *)
(* GetterOf, SetterOf and PropertyOf, then come bar, NS and its functions. *)
(***************************************************************************)
GetterOf(n, d) == n + 3 * (d - 1) + 1

SetterOf(n, d) == n + 3 * (d - 1) + 2

PropertyOf(n, d) == n + 3 * (d - 1) + 3

MemberDeclarations(p) ==
    LET n == p.fooDeclarations
    IN  [d \in 1..(4 * n + 4) |->
            IF d <= n
            THEN AstDeclaration(AccessorClassTree("Foo", p.typeRef, TypeEntity(p.typeRef),
                                                  GetterOf(n, d), SetterOf(n, d),
                                                  PropertyOf(n, d)),
                                FALSE, "Foo", MetadataProfiles[p.fooMetadata], FALSE,
                                FALSE, <<>>)
            ELSE IF d <= 4 * n
            THEN CASE (d - n) % 3 = 1 ->
                        AstDeclaration(<<>>, FALSE, "b", MetadataProfiles[p.getterMetadata],
                                       FALSE, FALSE, <<>>)
                   [] (d - n) % 3 = 2 ->
                        AstDeclaration(<<>>, FALSE, "b", MetadataProfiles[p.getterMetadata],
                                       TRUE, FALSE, <<>>)
                   [] OTHER ->
                        AstDeclaration(<<>>, p.propertyPrivate, "_a",
                                       MetadataProfiles[p.propertyMetadata], FALSE, FALSE,
                                       <<>>)
            ELSE IF d = 4 * n + 1
            THEN AstDeclaration(VariableTree("bar", p.typeRef, TypeEntity(p.typeRef)),
                                FALSE, "bar", MetadataProfiles["tagged"], FALSE,
                                TRUE, <<"const", " ">>)
            ELSE IF d = 4 * n + 2
            THEN AstDeclaration(NamespaceTree("NS", 4 * n + 3, 4 * n + 4),
                                FALSE, "NS", MetadataProfiles[p.nsMetadata], FALSE,
                                FALSE, <<>>)
            ELSE AstDeclaration(<<>>, FALSE, IF d = 4 * n + 3 THEN "g" ELSE "f",
                                MetadataProfiles["plain"], FALSE, FALSE, <<>>)]

MakeMemberCollector(p) ==
    [workingPackage |-> [name |-> "pkg", tsdocComment |-> "comment"],
     entities |->
         <<ImportEntity("Imp", AstImport("NamedImport", "lib", <<"Imp">>, FALSE),
                        "Imp_1", p.importExportNames, FALSE),
           SymbolEntity("Foo", "Foo", p.fooExportNames, p.fooInline,
                        [i \in 1..p.fooDeclarations |-> i]),
           SymbolEntity("bar", "bar", <<"bar">>, p.barInline, <<4 * p.fooDeclarations + 1>>),
           SymbolEntity("NS", "NS", p.nsExportNames, p.nsInline,
                        <<4 * p.fooDeclarations + 2>>)>>,
     starExportedExternalModulePaths |-> SubSeq(StarPaths, 1, p.starExports),
     declarations |-> MemberDeclarations(p),
     messages |-> p.messages]

MemberBaseParams ==
    [fooDeclarations |-> 1, fooMetadata |-> "tagged", fooInline |-> TRUE,
     fooExportNames |-> <<"Foo">>, typeRef |-> "Imp", getterMetadata |-> "tagged",
     propertyMetadata |-> "plain", propertyPrivate |-> FALSE, barInline |-> TRUE,
     nsMetadata |-> "tagged", nsInline |-> TRUE, nsExportNames |-> <<"NS">>,
     importExportNames |-> <<>>, starExports |-> 1, messages |-> <<>>]

\* release tags, private members and preapproved declarations
TierParams ==
    {[MemberBaseParams EXCEPT !.fooMetadata = p[1], !.fooDeclarations = p[2],
                              !.getterMetadata = p[3], !.propertyMetadata = p[4],
                              !.propertyPrivate = p[5], !.nsMetadata = p[6]] :
       p \in {"tagged", "preapproved"} \X (1..MaxDeclarations)
             \X {"plain", "internal", "alpha"} \X {"plain", "internal"} \X BOOLEAN
             \X {"tagged", "preapproved"}}

\* warnings on the class, the getter, the setter and the property
MemberMessageLists ==
    {<<Message(SetterOf(1, 1), "", WarningText)>>,
     <<Message(GetterOf(1, 1), "", WarningText), Message(SetterOf(1, 1), "", UntidyWarningText)>>,
     <<Message(PropertyOf(1, 1), "", WarningText), Message(1, "", WarningText)>>,
     <<Message(SetterOf(1, 1), "", WarningText), Message(0, "", WarningText)>>}

MemberMessageParams ==
    {[MemberBaseParams EXCEPT !.messages = p[1], !.getterMetadata = p[2],
                              !.fooMetadata = p[3], !.propertyPrivate = p[4]] :
       p \in MemberMessageLists \X {"plain", "tagged"} \X {"tagged", "preapproved"}
             \X BOOLEAN}

\* an entity is exported inline only under its own name, and only once
ExportStyles ==
    {<<FALSE, <<>>>>, <<TRUE, <<"Own">>>>, <<FALSE, <<"Own">>>>, <<FALSE, <<"Own", "Alias">>>>,
     <<FALSE, <<"default">>>>}

ExportNamesFor(style, name) ==
    [i \in 1..Len(style[2]) |-> IF style[2][i] = "Own" THEN name ELSE style[2][i]]

ExportParams ==
    {[MemberBaseParams EXCEPT !.fooInline = p[1][1],
                              !.fooExportNames = ExportNamesFor(p[1], "Foo"),
                              !.nsInline = p[2][1],
                              !.nsExportNames = ExportNamesFor(p[2], "NS"),
                              !.barInline = p[3], !.fooMetadata = p[4],
                              !.importExportNames = p[5], !.starExports = 0] :
       p \in ExportStyles \X {s \in ExportStyles : Len(s[2]) <= 1} \X BOOLEAN
             \X {"tagged", "preapproved"} \X {<<>>, <<"Imp">>}}

MemberCollectors ==
    {MakeMemberCollector(p) : p \in TierParams \cup MemberMessageParams \cup ExportParams}

InitMembers == EquivIdle /\ GeneratorAt("start", MemberCollectors) /\ RestIdle

NextMembers ==
    \/ WriteHeader
    \/ EmitImportStep
    \/ EndImports
    \/ BeginEntity
    \/ BeginDeclaration
    \/ ModifySpanChild
    \/ ModifySpanReturn
    \/ WriteDeclaration
    \/ EndDeclarations
    \/ EmitExportStep
    \/ EndEntity
    \/ EmitStarExports
    \/ WriteTrailer

SpecMembers == InitMembers /\ [][NextMembers]_vars

(***************************************************************************)
(* The specification of the routing of messages: generateReviewFileContent *)
(* on a class Foo and a variable bar, with messages for their declarations *)
(* that carry no export name, an export name of Foo or one of neither.     *)
(* Each message has a text of its own.                                     *)
(***************************************************************************)
MaxFetched == 2          \* most messages of a collector

MessageMarkers == <<"(ae-1)", "(ae-2)", "(ae-3)", "(ae-4)">>

\* the messages of a collector: message i has the text of marker i
RoutedMessageLists(declarations) ==
    UNION {{[i \in 1..n |-> Message(ds[i], names[i], <<MessageMarkers[i], " ", "oops">>)] :
               ds \in [1..n -> declarations], names \in [1..n -> {"", "Alias"}]} :
           n \in 0..MaxFetched}

MessageParams ==
    UNION {{[BaseParams EXCEPT !.fooExportNames = p[1], !.fooInline = p[2],
                               !.barInline = p[3], !.fooDeclarations = n,
                               !.messages = p[4]] :
              p \in {<<"Foo">>, <<"Foo", "Alias">>} \X BOOLEAN \X BOOLEAN
                    \X RoutedMessageLists({1, n, 2 * n + 1})} :
           n \in 1..MaxDeclarations}

MessageCollectors == {MakeCollector(p) : p \in MessageParams}

InitMessages == EquivIdle /\ GeneratorAt("start", MessageCollectors) /\ RestIdle

NextMessages ==
    \/ WriteHeader
    \/ EmitImportStep
    \/ EndImports
    \/ BeginEntity
    \/ BeginDeclaration
    \/ ModifySpanChild
    \/ ModifySpanReturn
    \/ WriteDeclaration
    \/ EndDeclarations
    \/ EmitExportStep
    \/ EndEntity
    \/ EmitStarExports
    \/ WriteTrailer

SpecMessages == InitMessages /\ [][NextMessages]_vars

(***************************************************************************)
(* The specification of the synopsis: generateReviewFileContent on a class *)
(* Foo whose metadata takes every combination of the flags that            *)
(* _getAedocSynopsis reads, with no, one or two warnings routed to it.     *)
(***************************************************************************)
SynopsisMetadata ==
    [isPreapproved : {FALSE}, releaseTagSameAsParent : BOOLEAN,
     effectiveReleaseTag : {"None", "Public", "Beta"}, isSealed : BOOLEAN,
     isVirtual : BOOLEAN, isOverride : BOOLEAN, isEventProperty : BOOLEAN,
     deprecatedBlock : BOOLEAN, needsDocumentation : BOOLEAN]

SynopsisMessageLists ==
    {<<>>,
     <<Message(1, "", WarningText)>>,
     <<Message(1, "", UntidyWarningText), Message(1, "", WarningText)>>}

MakeSynopsisCollector(metadata, messages) ==
    [workingPackage |-> [name |-> "pkg", tsdocComment |-> "comment"],
     entities |->
         <<ImportEntity("Imp", AstImport("NamedImport", "lib", <<"Imp">>, FALSE),
                        "Imp", <<"Imp">>, FALSE),
           SymbolEntity("Foo", "Foo", <<"Foo">>, TRUE, <<1>>)>>,
     starExportedExternalModulePaths |-> SubSeq(StarPaths, 1, 1),
     declarations |->
         <<AstDeclaration(ClassTree("Foo", <<"\n">>, "string", "", 2),
                          FALSE, "Foo", metadata, FALSE, FALSE, <<>>),
           AstDeclaration(<<>>, FALSE, "prop", MetadataProfiles["plain"], FALSE, FALSE,
                          <<>>)>>,
     messages |-> messages]

SynopsisCollectors ==
    {MakeSynopsisCollector(p[1], p[2]) : p \in SynopsisMetadata \X SynopsisMessageLists}

InitSynopsis == EquivIdle /\ GeneratorAt("start", SynopsisCollectors) /\ RestIdle

NextSynopsis ==
    \/ WriteHeader
    \/ EmitImportStep
    \/ EndImports
    \/ BeginEntity
    \/ BeginDeclaration
    \/ ModifySpanChild
    \/ ModifySpanReturn
    \/ WriteDeclaration
    \/ EndDeclarations
    \/ EmitExportStep
    \/ EndEntity
    \/ EmitStarExports
    \/ WriteTrailer

SpecSynopsis == InitSynopsis /\ [][NextSynopsis]_vars

(***************************************************************************)
(* The specification of Extractor.invoke                                   *)
(***************************************************************************)
InitInvoke ==
    /\ EquivIdle
    /\ GeneratorAt("idle", {NoCollector})
    /\ ContainerIdle
    /\ InvokeAt("start")

NextInvoke ==
    \/ InvokeAnalyze
    \/ InvokeDocModel
    \/ InvokeReport
    \/ InvokeRollups
    \/ InvokeTsdocMetadata
    \/ InvokeHandleRemaining
    \/ InvokeReturn

SpecInvoke == InitInvoke /\ [][NextInvoke]_vars

(***************************************************************************)
(* The specification of two calls of Extractor.invoke, one after the other *)
(***************************************************************************)
NextInvokeTwice ==
    \/ InvokeAnalyze
    \/ InvokeDocModel
    \/ InvokeReport
    \/ InvokeRollups
    \/ InvokeTsdocMetadata
    \/ InvokeHandleRemaining
    \/ InvokeReturn
    \/ InvokeAgain

SpecInvokeTwice == InitInvoke /\ [][NextInvokeTwice]_vars

(***************************************************************************)
(* The specification of a container of API items: constructed without      *)
(* members or with one, then any calls of addMember, members, tryGetMember *)
(***************************************************************************)
InitContainer ==
    /\ EquivIdle /\ GeneratorAt("idle", {NoCollector}) /\ InvokeIdle
    /\ \E optionsMembers \in {<<>>} \cup {<<member>> : member \in ApiItems} :
         ContainerOf(optionsMembers)

NextContainer ==
    \/ AddMember
    \/ ReadMembers
    \/ TryGetMember

SpecContainer == InitContainer /\ [][NextContainer]_vars

(***************************************************************************)
(* Claims about areEquivalentApiFileContents                               *)
(***************************************************************************)
\* the content with every maximal run of white space replaced by one space: the
\* first character of a run becomes a space, the others of the run are dropped
CollapsedRuns(content) ==
    LET first(i) == ~IsWhitespace(content[i]) \/ i = 1 \/ ~IsWhitespace(content[i - 1])
        positions == SelectSeq([i \in 1..Len(content) |-> i], first)
    IN  [k \in 1..Len(positions) |->
            IF IsWhitespace(content[positions[k]]) THEN " " ELSE content[positions[k]]]

\* C1: areEquivalentApiFileContents(a, b) returns true if and only if a and b are
\* the identical string after every maximal run of white-space characters in each
\* has been replaced by a single space; nothing else is normalized (no trimming of
\* leading or trailing white space, no case folding).
C1_EquivalentIffCollapsedIdentical ==
    eqPc = "returned" =>
        (equivalent.ab <=>
            CollapsedRuns(actualFileContent) = CollapsedRuns(expectedFileContent))

\* two contents of different lengths compared equivalent: a run was collapsed
C1_Witness ==
    /\ eqPc = "returned"
    /\ equivalent.ab
    /\ Len(actualFileContent) > Len(expectedFileContent)
    /\ \E i \in 1..Len(actualFileContent) : ~IsWhitespace(actualFileContent[i])

\* C2: areEquivalentApiFileContents is an equivalence relation on strings: it is
\* reflexive (a~a), symmetric (a~b implies b~a) and transitive (a~b and b~c imply
\* a~c).
C2_EquivalenceRelation ==
    eqPc = "returned" =>
        /\ equivalent.aa
        /\ equivalent.ab => equivalent.ba
        /\ (equivalent.ab /\ equivalent.bc) => equivalent.ac

\* a chain of three different contents, each equivalent to the next
C2_Witness ==
    /\ eqPc = "returned"
    /\ equivalent.ab /\ equivalent.bc /\ equivalent.ac /\ equivalent.ba
    /\ actualFileContent # expectedFileContent
    /\ expectedFileContent # otherFileContent
    /\ actualFileContent # otherFileContent

\* Git newline normalization: every CR LF becomes LF
GitToLf(content) ==
    LET kept(i) == ~(content[i] = "\r" /\ i < Len(content) /\ content[i + 1] = "\n")
        positions == SelectSeq([i \in 1..Len(content) |-> i], kept)
    IN  [k \in 1..Len(positions) |-> content[positions[k]]]

\* Git newline normalization: every LF that no CR precedes becomes CR LF
RECURSIVE GitToCrLf(_)
GitToCrLf(content) ==
    IF content = <<>> THEN <<>>
    ELSE LET last == content[Len(content)]
             front == SubSeq(content, 1, Len(content) - 1)
         IN  IF last = "\n" /\ (front = <<>> \/ front[Len(front)] # "\r")
             THEN GitToCrLf(front) \o <<"\r", "\n">>
             ELSE GitToCrLf(front) \o <<last>>

\* an editor that strips white space when saving: the spaces and tabs at the end of
\* a line go, those of the last line and of the end of the file included
EditorStripped(content) ==
    LET trailing(i) ==
            /\ content[i] \in {" ", "\t"}
            /\ \E j \in (i + 1)..(Len(content) + 1) :
                  /\ \A k \in i..(j - 1) : content[k] \in {" ", "\t"}
                  /\ j = Len(content) + 1 \/ content[j] \in {"\n", "\r"}
        kept(i) == ~trailing(i)
        positions == SelectSeq([i \in 1..Len(content) |-> i], kept)
    IN  [k \in 1..Len(positions) |-> content[positions[k]]]

\* C3: areEquivalentApiFileContents ignores the changes a tool introduces: a content
\* is equivalent to what newline normalization (LF <-> CRLF) makes of it, and to
\* what an editor makes of it that strips the white space at the end of every line,
\* the last line and the end of the file included.
C3_IgnoresToolChanges ==
    (/\ eqPc = "returned"
     /\ expectedFileContent \in {GitToLf(actualFileContent), GitToCrLf(actualFileContent),
                                 EditorStripped(actualFileContent)})
    => equivalent.ab

(***************************************************************************)
(* Claims about generateReviewFileContent                                  *)
(***************************************************************************)
\* the character at position i of the text is the last of its line
EndsLine(text, i) == i = Len(text) \/ IsLineTerminator(text[i + 1])

\* C4 as stated: the string generateReviewFileContent returns has no line that ends
\* in horizontal white space (space or tab), whatever the declarations, synopses
\* and warnings contributed.
C4_NoTrailingHorizontalWhitespace ==
    pc = "done" =>
        \A i \in 1..Len(reviewFileContent) :
            reviewFileContent[i] \in {" ", "\t"} => ~EndsLine(reviewFileContent, i)

\* C4, amended: the string generateReviewFileContent returns has no line that ends
\* in a space, and it differs from the assembled report in spaces only; a tab at
\* the end of a line stays.
C4_NoTrailingSpaces ==
    pc = "done" =>
        /\ \A i \in 1..Len(reviewFileContent) :
               reviewFileContent[i] = " " => ~EndsLine(reviewFileContent, i)
        /\ LET notSpace(c) == c # " "
           IN  SelectSeq(reviewFileContent, notSpace) = SelectSeq(stringWriter, notSpace)

\* a report whose assembled text had spaces at the end of a line, and has a line
\* that ends in a tab
C4_Witness ==
    /\ pc = "done"
    /\ \E i \in 1..(Len(stringWriter) - 1) :
           stringWriter[i] = " " /\ IsLineTerminator(stringWriter[i + 1])
    /\ \E i \in 1..Len(reviewFileContent) :
           reviewFileContent[i] = "\t" /\ EndsLine(reviewFileContent, i)

\* a report whose assembled text had spaces before a U+2028, which ends a line as
\* LF and CR do: the spaces are gone
C4_WitnessLineSeparator ==
    /\ pc = "done"
    /\ \E i \in 1..(Len(stringWriter) - 1) :
           stringWriter[i] = " " /\ stringWriter[i + 1] = "U+2028"
    /\ \A i \in 1..(Len(reviewFileContent) - 1) :
           reviewFileContent[i + 1] = "U+2028" => reviewFileContent[i] # " "

\* contents that differ in the kind of white space only: a vertical tab, a
\* no-break space or a U+2028 against a space
C1_WitnessWide ==
    /\ eqPc = "returned"
    /\ equivalent.ab
    /\ actualFileContent # expectedFileContent
    /\ Len(actualFileContent) = Len(expectedFileContent)
    /\ \E i \in 1..Len(actualFileContent) :
           actualFileContent[i] \in WhitespaceChars \ {" ", "\t", "\n", "\r", "\f"}

(***************************************************************************)
(* Claims about DtsHelpers.emitImport and DtsHelpers.emitNamedExport       *)
(***************************************************************************)
\* what the k-th logged write put into stringWriter: the statement itself
StatementText(k) == SubSeq(stringWriter, sections[k].textStart, sections[k].end)

ImportSections == {k \in 1..Len(sections) : sections[k].kind = "import"}

ExportSections == {k \in 1..Len(sections) : sections[k].kind = "export"}

SectionEntity(k) == collector.entities[sections[k].entity]

ImportKeywords == {<<"import">>, <<"import", " ", "type">>}

FromClause(modulePath) == <<" ", "from", " ", "'", modulePath, "'", ";", "\n">>

\* the forms of C5, after the import keyword
DefaultImportForm(nameForEmit, exportName, modulePath) ==
    IF <<nameForEmit>> # exportName
    THEN <<" ", "{", " ", "default", " ", "as", " ", nameForEmit, " ", "}">>
         \o FromClause(modulePath)
    ELSE <<" ", exportName[1]>> \o FromClause(modulePath)

NamedImportForm(nameForEmit, exportName, modulePath) ==
    IF <<nameForEmit>> # exportName
    THEN <<" ", "{", " ", exportName[1], " ", "as", " ", nameForEmit, " ", "}">>
         \o FromClause(modulePath)
    ELSE <<" ", "{", " ", exportName[1], " ", "}">> \o FromClause(modulePath)

\* the name an import statement binds: the one after `as`, else the only name
BoundName(statement) ==
    IF \E i \in 1..Len(statement) : statement[i] = "as"
    THEN statement[(CHOOSE i \in 1..Len(statement) : statement[i] = "as") + 2]
    ELSE IF \E i \in 1..Len(statement) : statement[i] = "{"
    THEN statement[(CHOOSE i \in 1..Len(statement) : statement[i] = "{") + 2]
    ELSE statement[(CHOOSE i \in 1..Len(statement) : statement[i] = "from") - 2]

\* the module path an import statement names, between the quotes after `from`
ModulePathOf(statement) ==
    statement[(CHOOSE i \in 1..Len(statement) : statement[i] = "from") + 3]

\* C5: emitImport writes a default import as `import { default as <nameForEmit> }
\* from '<modulePath>';` if nameForEmit differs from exportName and as `import
\* <exportName> from '<modulePath>';` otherwise; a named import as `import {
\* <exportName> as <nameForEmit> } from '<modulePath>';` if they differ and as
\* `import { <exportName> } from '<modulePath>';` otherwise.  Hence two
\* default-imported entities of the same local name from modules 'a' and 'b' yield
\* two import statements that bind two distinct names, each naming its own module.
C5_ImportRenamingForms ==
    /\ \A k \in ImportSections :
         LET entity == SectionEntity(k)
             astImport == entity.astImport
         IN  /\ astImport.importKind = "DefaultImport" =>
                  \E keyword \in ImportKeywords :
                      StatementText(k) = keyword
                          \o DefaultImportForm(entity.nameForEmit, astImport.exportName,
                                               astImport.modulePath)
             /\ astImport.importKind = "NamedImport" =>
                  \E keyword \in ImportKeywords :
                      StatementText(k) = keyword
                          \o NamedImportForm(entity.nameForEmit, astImport.exportName,
                                             astImport.modulePath)
    /\ \A k1 \in ImportSections : \A k2 \in ImportSections :
         (/\ k1 # k2
          /\ SectionEntity(k1).astImport.importKind = "DefaultImport"
          /\ SectionEntity(k2).astImport.importKind = "DefaultImport"
          /\ SectionEntity(k1).localName = SectionEntity(k2).localName)
         => /\ BoundName(StatementText(k1)) # BoundName(StatementText(k2))
            /\ ModulePathOf(StatementText(k1)) = SectionEntity(k1).astImport.modulePath
            /\ ModulePathOf(StatementText(k2)) = SectionEntity(k2).astImport.modulePath
            /\ ModulePathOf(StatementText(k1)) # ModulePathOf(StatementText(k2))

\* both default imports of the local name X are emitted, one renamed, one not
C5_Witness ==
    /\ pc = "done"
    /\ \E k1 \in ImportSections : \E k2 \in ImportSections :
         /\ SectionEntity(k1).astImport.importKind = "DefaultImport"
         /\ SectionEntity(k2).astImport.importKind = "DefaultImport"
         /\ StatementText(k1) = <<"import", " ", "X", " ", "from", " ", "'", "a", "'", ";", "\n">>
         /\ StatementText(k2) = <<"import", " ", "{", " ", "default", " ", "as", " ", "X_1",
                                  " ", "}", " ", "from", " ", "'", "b", "'", ";", "\n">>

\* the statement with its leading keyword `import` replaced by `import type`
AsTypeImport(statement) == <<"import", " ", "type">> \o Tail(statement)

\* C6: for every import kind, the statement emitImport writes for an import with
\* isTypeOnlyEverywhere = true is the statement it writes for the same import with
\* isTypeOnlyEverywhere = false, the leading `import` replaced by `import type`;
\* star imports are always `* as <nameForEmit> from '<modulePath>'` and
\* require-equals imports always `<nameForEmit> = require('<modulePath>')`.
C6_TypeOnlyPrefix ==
    \A k \in ImportSections :
        LET entity == SectionEntity(k)
            astImport == entity.astImport
            untyped == emitImport(entity, [astImport EXCEPT !.isTypeOnlyEverywhere = FALSE])
            keyword == IF astImport.isTypeOnlyEverywhere
                       THEN <<"import", " ", "type">> ELSE <<"import">>
        IN  /\ untyped.written[1] = "import" /\ untyped.written[2] = " "
            /\ untyped.written[3] # "type"
            /\ StatementText(k) = IF astImport.isTypeOnlyEverywhere
                                  THEN AsTypeImport(untyped.written)
                                  ELSE untyped.written
            /\ astImport.importKind = "StarImport" =>
                 StatementText(k) = keyword
                     \o <<" ", "*", " ", "as", " ", entity.nameForEmit>>
                     \o FromClause(astImport.modulePath)
            /\ astImport.importKind = "EqualsImport" =>
                 StatementText(k) = keyword
                     \o <<" ", entity.nameForEmit, " ", "=", " ", "require", "(", "'",
                          astImport.modulePath, "'", ")", ";", "\n">>

\* a type-only require-equals import was emitted
C6_Witness ==
    \E k \in ImportSections :
        /\ SectionEntity(k).astImport.importKind = "EqualsImport"
        /\ SectionEntity(k).astImport.isTypeOnlyEverywhere
        /\ StatementText(k) = <<"import", " ", "type", " ", "X_1", " ", "=", " ", "require",
                                "(", "'", "a", "'", ")", ";", "\n">>

\* C8: emitNamedExport writes exactly one line per call: `export default
\* <nameForEmit>;` when the export name is the default-export name, otherwise
\* `export { <nameForEmit> as <exportName> }` when nameForEmit differs from
\* exportName, otherwise `export { <exportName> }`.
C8_NamedExportForms ==
    \A k \in ExportSections :
        LET nameForEmit == SectionEntity(k).nameForEmit
            exportName == sections[k].item
        IN  StatementText(k) =
                IF exportName = "default"
                THEN <<"export", " ", "default", " ", nameForEmit, ";", "\n">>
                ELSE IF nameForEmit # exportName
                THEN <<"export", " ", "{", " ", nameForEmit, " ", "as", " ", exportName,
                       " ", "}", "\n">>
                ELSE <<"export", " ", "{", " ", exportName, " ", "}", "\n">>

\* one entity exported three times: as the default, under its own name, renamed
C8_Witness ==
    /\ pc = "done"
    /\ \E k1 \in ExportSections : \E k2 \in ExportSections : \E k3 \in ExportSections :
         /\ StatementText(k1) = <<"export", " ", "default", " ", "X", ";", "\n">>
         /\ StatementText(k2) = <<"export", " ", "{", " ", "X", " ", "}", "\n">>
         /\ StatementText(k3) = <<"export", " ", "{", " ", "X", " ", "as", " ", "Z", " ",
                                  "}", "\n">>

(***************************************************************************)
(* Claims about import-type references                                     *)
(***************************************************************************)
ReferencedEntity == collector.entities[1]

\* the reference resolves to its ImportType entity, which has a qualifier chain
QualifiedImportType ==
    /\ ReferenceTree[1].entity # ""
    /\ ReferencedEntity.isAstImport
    /\ ReferencedEntity.astImport.importKind = "ImportType"
    /\ ReferencedEntity.astImport.exportName # <<>>

\* the callback modifyImportTypeSpan was called with
NestedSpanModifierUsed == sections[Len(sections)].item

\* the type arguments of the reference as the callback renders them
RenderedTypeArguments ==
    LET t == IF NestedSpanModifierUsed = "rename" THEN "T_1" ELSE "T"
    IN  CASE ReferenceTree[1].typeArguments = 0 -> <<>>
          [] ReferenceTree[1].typeArguments = 1 -> <<"<", t, ">">>
          [] OTHER -> <<"<", t, ",", " ", "U", ">">>

\* C7: for an import-type reference with a qualifier chain, emitImport imports only
\* the segment of exportName before the first '.', aliased to nameForEmit when they
\* differ, and modifyImportTypeSpan replaces the whole reference span with
\* nameForEmit, then the qualifier from its first '.' onward, unchanged, then the
\* type arguments rendered through modifyNestedSpan; so the rewritten reference
\* names the member the original named, reached through the emitted import.
C7_ImportTypeQualifierChain ==
    (pc = "done" /\ QualifiedImportType) =>
        LET nameForEmit == ReferencedEntity.nameForEmit
            exportName == ReferencedEntity.astImport.exportName
            nested == [i \in 1..(2 * Len(exportName) - 2) |->
                          IF i % 2 = 1 THEN "." ELSE exportName[(i \div 2) + 1]]
            reference == <<nameForEmit>> \o nested \o RenderedTypeArguments
        IN  /\ \E keyword \in ImportKeywords :
                 StatementText(1) = keyword
                     \o (IF nameForEmit = exportName[1]
                         THEN <<" ", "{", " ", exportName[1], " ", "}">>
                         ELSE <<" ", "{", " ", exportName[1], " ", "as", " ", nameForEmit,
                                " ", "}">>)
                     \o FromClause("mod")
            /\ modification[1].prefix = reference
            /\ modification[1].suffix = <<>>
            /\ modification[1].omitChildren
            /\ StatementText(2) = reference
            /\ BoundName(StatementText(1)) = reference[1]
            /\ <<exportName[1]>> \o nested = QualifiersText(ReferenceTree, 1)

\* import('mod').NS.A.B<T, U> was rewritten to NS_1.A.B<T_1, U>, NS imported as NS_1
C7_Witness ==
    /\ pc = "done"
    /\ QualifiedImportType
    /\ StatementText(1) = <<"import", " ", "{", " ", "NS", " ", "as", " ", "NS_1", " ", "}",
                            " ", "from", " ", "'", "mod", "'", ";", "\n">>
    /\ StatementText(2) = <<"NS_1", ".", "A", ".", "B", "<", "T_1", ",", " ", "U", ">">>

(***************************************************************************)
(* Claims about the order of the report and about identifiers              *)
(***************************************************************************)
DeclarationSections == {k \in 1..Len(sections) : sections[k].kind = "declaration"}

StarExportSections == {k \in 1..Len(sections) : sections[k].kind = "starExports"}

EntitySections == DeclarationSections \cup ExportSections

\* the text of the k-th logged write, warnings and synopsis included
SectionText(k) == SubSeq(stringWriter, sections[k].start, sections[k].end)

\* the section of k1 is written, whole, before that of k2 begins
Precedes(k1, k2) == sections[k1].end < sections[k2].start

\* the export * lines of the module paths, one line each
StarExportStatements(modulePaths) ==
    IF modulePaths = <<>> THEN <<>>
    ELSE <<"\n">> \o Flatten([i \in 1..Len(modulePaths) |->
                      <<"export", " ", "*", " ", "from", " ", "\"", modulePaths[i], "\"",
                        ";", "\n">>])

\* the statements and declarations the finished report must hold
EverythingEmitted ==
    /\ \A e \in 1..Len(collector.entities) :
         LET entity == collector.entities[e]
         IN  /\ (entity.isAstImport /\ ~entity.preferredAlternative) <=>
                    \E k \in ImportSections : sections[k].entity = e
             /\ (entity.exported /\ ~entity.isAstImport) =>
                    \A d \in 1..Len(entity.astDeclarations) :
                        \E k \in DeclarationSections :
                            sections[k].entity = e /\ sections[k].item = entity.astDeclarations[d]
             /\ (entity.exported /\ ~entity.shouldInlineExport) =>
                    \A x \in 1..Len(entity.exportNames) :
                        \E k \in ExportSections :
                            sections[k].entity = e /\ sections[k].item = entity.exportNames[x]
             /\ (~entity.exported \/ entity.shouldInlineExport) =>
                    ~\E k \in ExportSections : sections[k].entity = e
             /\ ~entity.exported =>
                    ~\E k \in DeclarationSections : sections[k].entity = e
    /\ Cardinality(StarExportSections) = 1

\* C9: in the text generateReviewFileContent produces, every import statement
\* precedes every declaration and every export statement; the exported entities
\* appear in the order of collector.entities, each entity's declarations before its
\* export statements; the `export * from "<module>"` lines, one per star-exported
\* module path, and nothing, not even a blank line, when there is none, come after
\* all entity output.
C9_SectionOrder ==
    /\ \A k \in 1..Len(sections) :
         sections[k].end # 0 =>
             /\ sections[k].kind = "import" => SectionText(k)[1] = "import"
             /\ sections[k].kind = "export" => StatementText(k)[1] = "export"
             /\ sections[k].kind = "starExports" =>
                    SectionText(k) = StarExportStatements(collector.starExportedExternalModulePaths)
    /\ \A k1 \in ImportSections : \A k2 \in EntitySections : Precedes(k1, k2)
    /\ \A k1 \in EntitySections : \A k2 \in EntitySections :
         sections[k1].entity < sections[k2].entity => Precedes(k1, k2)
    /\ \A k1 \in DeclarationSections : \A k2 \in ExportSections :
         sections[k1].entity = sections[k2].entity => Precedes(k1, k2)
    /\ \A k1 \in ImportSections \cup EntitySections : \A k2 \in StarExportSections :
         Precedes(k1, k2)
    /\ pc \in {"trailer", "done"} => EverythingEmitted

\* a finished report with an import, declarations of two entities, export
\* statements and star exports, the import being the last entity of the collector
C9_Witness ==
    /\ pc = "done"
    /\ collector.entities[3].isAstImport
    /\ \E k \in ImportSections : sections[k].entity = 3
    /\ \E k1 \in DeclarationSections : \E k2 \in DeclarationSections :
         sections[k1].entity = 1 /\ sections[k2].entity = 2
    /\ \E k1 \in ExportSections : \E k2 \in ExportSections :
         sections[k1].entity = 1 /\ sections[k2].entity = 3
    /\ Len(collector.starExportedExternalModulePaths) = 2
    /\ \E k \in DeclarationSections :
         sections[k].entity = 1 /\ sections[k].item = 2

\* the Identifier spans _modifySpan has been called on, for the current declaration
VisitedIdentifiers ==
    {visited[i] : i \in {j \in 1..Len(visited) : CurrentTree[visited[j]].kind = "Identifier"}}

\* C10: during _modifySpan, an Identifier span whose node resolves to a known entity
\* gets its modification prefix set to that entity's nameForEmit, and an Identifier
\* span whose node resolves to no entity has its modification left untouched: its
\* original text is rendered.
C10_IdentifierRenamed ==
    pc = "modify" =>
        \A s \in VisitedIdentifiers :
            LET node == CurrentTree[s]
                resolved == {e \in 1..Len(collector.entities) :
                                node.entity # "" /\ collector.entities[e].localName = node.entity}
            IN  /\ \A e \in resolved :
                       modification[s].prefix = <<collector.entities[e].nameForEmit>>
                /\ resolved = {} =>
                       /\ modification[s] = DefaultModification(node)
                       /\ modification[s].prefix = node.prefix

\* _modifySpan went over an identifier of a renamed entity and over one that
\* resolves to no entity
C10_Witness ==
    /\ pc = "modify"
    /\ \E s \in VisitedIdentifiers :
         /\ CurrentTree[s].entity = "Imp"
         /\ CurrentTree[s].prefix = <<"Imp">>
         /\ modification[s].prefix = <<"Imp_1">>
    /\ \E s \in VisitedIdentifiers :
         /\ CurrentTree[s].entity = ""
         /\ modification[s].prefix = <<"prop">>

(***************************************************************************)
(* Claims about internal errors                                            *)
(***************************************************************************)
\* is the collector that of an import-type reference?
IsReference ==
    /\ collector.declarations # <<>>
    /\ collector.declarations[1].declaration # <<>>
    /\ collector.declarations[1].declaration[1].kind = "ImportType"

\* the node resolves to an entity of the collector that has no nameForEmit
ResolvesToNameless(node) ==
    \E e \in 1..Len(collector.entities) :
        /\ node.entity # ""
        /\ collector.entities[e].localName = node.entity
        /\ collector.entities[e].nameForEmit = Undefined

NamelessMessage == "referencedEntry.nameForEmit is undefined"

\* the positions of visited at which _modifySpan was called on an identifier
\* that resolves to a nameless entity
NamelessVisits ==
    IF IsReference \/ pc \notin {"modify", "failed"} THEN {}
    ELSE {i \in 1..Len(visited) :
             /\ CurrentTree[visited[i]].kind = "Identifier"
             /\ ResolvesToNameless(CurrentTree[visited[i]])}

\* modifyImportTypeSpan was called on a reference that resolves to a nameless entity
NamelessReference ==
    /\ IsReference
    /\ visited # <<>>
    /\ ResolvesToNameless(ReferenceTree[1])

\* C11: whenever rewriting reaches an identifier or an import-type node that
\* resolves to an entity with no nameForEmit, the generation ends there with the
\* InternalError 'referencedEntry.nameForEmit is undefined': the span is left
\* unmodified, no further span is visited, nothing more is written and no report
\* text is returned.
C11_NamelessEntityAborts ==
    /\ \A i \in NamelessVisits :
         /\ pc = "failed"
         /\ failure = NamelessMessage
         /\ i = Len(visited)
         /\ \A j \in 1..(i - 1) : visited[j] # visited[i]
         /\ modification[visited[i]] = DefaultModification(CurrentTree[visited[i]])
         /\ sections[Len(sections)].kind = "declaration"
         /\ sections[Len(sections)].end = 0
         /\ reviewFileContent = <<>>
    /\ NamelessReference =>
         /\ pc = "failed"
         /\ failure = NamelessMessage
         /\ modification = NewSpan(ReferenceTree)
         /\ sections[Len(sections)].kind = "reference"
         /\ sections[Len(sections)].end = 0
         /\ reviewFileContent = <<>>
    /\ pc = "failed" => reviewFileContent = <<>>

\* _modifySpan reached, below other spans, an identifier of a nameless entity
C11_Witness ==
    /\ pc = "failed"
    /\ \E i \in NamelessVisits : i > 3 /\ CurrentTree[visited[i]].parent # 1

\* modifyImportTypeSpan was called on a reference with type arguments to a nameless entity
C11_WitnessReference ==
    /\ NamelessReference
    /\ ReferenceTree[1].typeArguments > 0
    /\ pc = "failed"

\* the positions, among the children of the reference, of the tokens of a kind
TokenPositions(kind) ==
    {i \in 1..Len(ReferenceTree[1].children) :
        ReferenceTree[ReferenceTree[1].children[i]].kind = kind}

FirstOf(positions) == CHOOSE i \in positions : \A j \in positions : i <= j

\* there is no `<` child, or the first `>` child is not strictly after the first `<`
MalformedTypeArguments ==
    \/ TokenPositions("LessThanToken") = {}
    \/ TokenPositions("GreaterThanToken") = {}
    \/ FirstOf(TokenPositions("GreaterThanToken")) < FirstOf(TokenPositions("LessThanToken"))

\* modifyImportTypeSpan has called modifySpanTypeArgumentsAndGetText on the reference:
\* the reference resolves to an entity that has a name
TypeArgumentsRequested ==
    /\ IsReference
    /\ pc \in {"rewritten", "done", "failed"}
    /\ tryGetEntityForNode(collector.entities, ReferenceTree[1]) # 0
    /\ ~ResolvesToNameless(ReferenceTree[1])

\* C12: modifySpanTypeArgumentsAndGetText on a node with type arguments throws
\* the InternalError 'Invalid type arguments' exactly when the span has no `<`
\* child or its first `>` child is not strictly after its first `<` child, and then
\* no span has been modified; on a node with no type arguments it returns the
\* empty string and modifies nothing.
C12_InvalidTypeArguments ==
    TypeArgumentsRequested =>
        /\ (pc = "failed") <=>
               (ReferenceTree[1].typeArguments > 0 /\ MalformedTypeArguments)
        /\ pc = "failed" =>
               /\ failure = "Invalid type arguments"
               /\ modification = NewSpan(ReferenceTree)
        /\ (pc # "failed" /\ ReferenceTree[1].typeArguments = 0) =>
               /\ \A s \in 2..Len(ReferenceTree) :
                      modification[s] = DefaultModification(ReferenceTree[s])
               /\ modification[1].prefix \in
                      {<<ReferencedEntity.nameForEmit>>,
                       <<ReferencedEntity.nameForEmit>>
                           \o NestedQualifiersText(QualifiersText(ReferenceTree, 1))}

\* the type arguments of a reference were requested with the `>` before the `<`
C12_Witness ==
    /\ TypeArgumentsRequested
    /\ pc = "failed"
    /\ TokenPositions("LessThanToken") # {}
    /\ TokenPositions("GreaterThanToken") # {}

(***************************************************************************)
(* Claims about declarations and their members                             *)
(***************************************************************************)
\* the declaration of the k-th logged write, and its tree
SectionDeclaration(k) == collector.declarations[sections[k].item]

\* the text of a declaration as written, after its synopsis
DeclarationText(k) == SubSeq(stringWriter, sections[k].textStart, sections[k].end)

\* the synopsis written before the declaration
SynopsisText(k) == SubSeq(stringWriter, sections[k].start, sections[k].textStart - 1)

WrittenDeclarations == {k \in DeclarationSections : sections[k].end # 0}

\* the declaration keyword and the name of a tree: the direct children of these kinds
KeywordOf(tree) ==
    tree[CHOOSE s \in 1..Len(tree) :
             tree[s].parent = 1 /\ tree[s].kind \in DeclarationKeywordKinds].prefix

NameOf(tree) ==
    tree[CHOOSE s \in 1..Len(tree) : tree[s].parent = 1 /\ tree[s].kind = "Identifier"].prefix

PreapprovedStub(tree) ==
    KeywordOf(tree) \o <<" ">> \o NameOf(tree)
    \o <<" ", "{", " ", "/* (preapproved) */", " ", "}">>

\* the declarations that lie below the root of a tree
MembersOf(tree) == {tree[s].declaration : s \in 1..Len(tree)} \ {0}

IsSkipped(m) ==
    /\ m.prefix = <<>>
    /\ m.suffix = <<>>
    /\ m.omitChildren
    /\ m.omitSeparatorAfter

\* C13: for a declaration whose metadata has isPreapproved, what is written after
\* the synopsis is the one-line stub `<keyword> <Name> { /* (preapproved) */ }`,
\* whatever its members: every direct child after the name and every SyntaxList and
\* JSDoc child is skipped, one stub suffix is appended (to the name), and _modifySpan
\* is applied neither to the declaration nor to a member: no span below the direct
\* children is modified, no sort key is given and no message of a member is fetched.
C13_PreapprovedStub ==
    /\ \A k \in WrittenDeclarations :
         SectionDeclaration(k).metadata.isPreapproved =>
             DeclarationText(k) = PreapprovedStub(SectionDeclaration(k).declaration)
                                      \o <<"\n", "\n">>
    /\ (pc = "modify" /\ CurrentDeclaration.metadata.isPreapproved) =>
         LET tree == CurrentTree
             name == CHOOSE s \in 1..Len(tree) :
                         tree[s].parent = 1 /\ tree[s].kind = "Identifier"
         IN  /\ visited = <<>>
             /\ stack = <<>>
             /\ \A s \in 1..Len(tree) :
                  /\ tree[s].parent # 1 => modification[s] = DefaultModification(tree[s])
                  /\ (tree[s].parent = 1 /\ s > name) => IsSkipped(modification[s])
                  /\ (tree[s].parent = 1 /\ tree[s].kind \in {"SyntaxList", "JSDocComment"})
                         => IsSkipped(modification[s])
                  /\ modification[s].sortKey = NoSortKey
                  /\ ~modification[s].sortChildren
             /\ {s \in 1..Len(tree) : modification[s].suffix = PreapprovedSuffix} = {name}
             /\ \A i \in handledMessages :
                  collector.messages[i].declaration \notin MembersOf(tree)

\* a report with a preapproved class whose setter carries a warning
C13_Witness ==
    /\ pc = "done"
    /\ \E k \in WrittenDeclarations :
         /\ SectionDeclaration(k).metadata.isPreapproved
         /\ SectionDeclaration(k).declaration[1].kind = "ClassDeclaration"
         /\ DeclarationText(k) = <<"class", " ", "Foo", " ", "{", " ", "/* (preapproved) */",
                                   " ", "}", "\n", "\n">>
    /\ \E i \in 1..Len(collector.messages) :
         collector.messages[i].declaration = SetterOf(1, 1)

Count(text, token) == Cardinality({i \in 1..Len(text) : text[i] = token})

\* the member declarations of a tree that have a given name
MembersNamed(tree, name) ==
    {m \in MembersOf(tree) : collector.declarations[m].localName = name}

MemberNames(tree) == {collector.declarations[m].localName : m \in MembersOf(tree)}

\* every declaration of every exported symbol has been written, under the entity's name
TopLevelDeclarationsEmitted ==
    pc = "done" =>
        \A e \in 1..Len(collector.entities) :
            LET entity == collector.entities[e]
            IN  (entity.exported /\ ~entity.isAstImport) =>
                    \A d \in 1..Len(entity.astDeclarations) :
                        \E k \in WrittenDeclarations :
                            /\ sections[k].entity = e
                            /\ sections[k].item = entity.astDeclarations[d]
                            /\ Count(DeclarationText(k), entity.nameForEmit) >= 1

\* C14 as stated: for every exported entity, every one of its declarations and
\* every nested member declaration appears in the report, whatever its release tag;
\* no declaration is omitted.
C14_EveryDeclarationEmitted ==
    /\ TopLevelDeclarationsEmitted
    /\ \A k \in WrittenDeclarations :
         LET tree == SectionDeclaration(k).declaration
         IN  \A name \in MemberNames(tree) :
                 Count(DeclarationText(k), name) = Cardinality(MembersNamed(tree, name))

\* C14, amended: for every exported entity, every one of its declarations appears
\* in the report, and so does every nested member declaration that is not private
\* and does not lie in a preapproved declaration, whatever its release tag; private
\* members and the members of a preapproved declaration are omitted.
C14_EveryNonPrivateDeclarationEmitted ==
    /\ TopLevelDeclarationsEmitted
    /\ \A k \in WrittenDeclarations :
         LET tree == SectionDeclaration(k).declaration
             shown(name) == {m \in MembersNamed(tree, name) :
                                /\ ~collector.declarations[m].private
                                /\ ~SectionDeclaration(k).metadata.isPreapproved}
         IN  \A name \in MemberNames(tree) :
                 Count(DeclarationText(k), name) = Cardinality(shown(name))

\* a finished report of a class with two declarations whose getter is @alpha and
\* whose property is @internal and private
C14_Witness ==
    /\ pc = "done"
    /\ Cardinality({k \in WrittenDeclarations : sections[k].entity = 2}) = 2
    /\ \E k \in WrittenDeclarations :
         LET tree == SectionDeclaration(k).declaration
         IN  /\ \E m \in MembersOf(tree) :
                  /\ collector.declarations[m].private
                  /\ collector.declarations[m].metadata.effectiveReleaseTag = "Internal"
             /\ \E m \in MembersOf(tree) :
                  collector.declarations[m].metadata.effectiveReleaseTag = "Alpha"
             /\ Count(DeclarationText(k), "b") = 2
             /\ Count(DeclarationText(k), "_a") = 0

(***************************************************************************)
(* Claims about the synopsis                                               *)
(***************************************************************************)
\* the lines of a text that ends in a line feed, without their line feeds
LinesOf(text) ==
    LET ends == SelectSeq([i \in 1..Len(text) |-> i], LAMBDA i : text[i] = "\n")
    IN  [n \in 1..Len(ends) |->
            SubSeq(text, IF n = 1 THEN 1 ELSE ends[n - 1] + 1, ends[n] - 1)]

StartsWith(line, start) == Len(line) >= Len(start) /\ SubSeq(line, 1, Len(start)) = start

\* the messages routed to a declaration, in the order of the collector
RoutedMessages(declaration) ==
    SelectSeq(collector.messages, LAMBDA message : message.declaration = declaration)

TagNames == [Internal |-> "@internal", Alpha |-> "@alpha", Beta |-> "@beta",
             Public |-> "@public"]

\* the parts of the footer in their fixed order, and which of them apply
FooterOrder ==
    <<"tag", "@sealed", "@virtual", "@override", "@eventProperty", "@deprecated",
      "(undocumented)">>

ExpectedFooter(metadata) ==
    LET applies(part) ==
            CASE part = "tag" -> /\ ~metadata.releaseTagSameAsParent
                                 /\ metadata.effectiveReleaseTag # "None"
              [] part = "@sealed" -> metadata.isSealed
              [] part = "@virtual" -> metadata.isVirtual
              [] part = "@override" -> metadata.isOverride
              [] part = "@eventProperty" -> metadata.isEventProperty
              [] part = "@deprecated" -> metadata.deprecatedBlock
              [] OTHER -> metadata.needsDocumentation
        chosen == SelectSeq(FooterOrder, applies)
    IN  [i \in 1..Len(chosen) |->
            IF chosen[i] = "tag" THEN TagNames[metadata.effectiveReleaseTag] ELSE chosen[i]]

\* the words of a footer line, after its `// `; the words are parted by single spaces
FooterWords(line) ==
    LET rest == SubSeq(line, 3, Len(line))
    IN  [i \in 1..((Len(rest) + 1) \div 2) |-> rest[2 * i - 1]]

(***************************************************************************)
\* the lines of the k-th written declaration
DeclarationLines(k) == LinesOf(DeclarationText(k))

LinesWith(lines, token) ==
    {n \in 1..Len(lines) : \E i \in 1..Len(lines[n]) : lines[n][i] = token}

\* a comment line of a member: the indentation, then `// `
IsCommentLine(line) == StartsWith(line, <<" ", "//", " ">>)

IsWarningLine(line) == StartsWith(line, <<" ", "//", " ", "Warning:", " ">>)

\* the comment lines directly above line n
CommentsAbove(lines, n) ==
    {m \in 1..(n - 1) : \A j \in m..(n - 1) : IsCommentLine(lines[j])}

\* the lines a message takes as a comment
MessageLineCount(message) == 1 + Count(ConvertToLf(message.text), "\n")

RECURSIVE SumOfLines(_)
SumOfLines(messages) ==
    IF messages = <<>> THEN 0
    ELSE MessageLineCount(messages[1]) + SumOfLines(Tail(messages))

\* the warnings of the messages are among the lines, in their order
WarningsAmong(lines, among, messages) ==
    LET starts == {n \in among : IsWarningLine(lines[n])}
    IN  /\ Cardinality(starts) = Len(messages)
        /\ \A i \in 1..Len(messages) :
             \E n \in starts :
                 /\ Cardinality({m \in starts : m < n}) = i - 1
                 /\ lines[n][6] = messages[i].text[1]

\* the getter and the setter of the tree of a declaration: their declarations
AccessorOf(tree, kind) ==
    tree[CHOOSE s \in 1..Len(tree) : tree[s].kind = kind].declaration

\* the written declarations that have a getter with a paired setter as members
WrittenAccessorPairs ==
    {k \in WrittenDeclarations :
        /\ ~SectionDeclaration(k).metadata.isPreapproved
        /\ \E s \in 1..Len(SectionDeclaration(k).declaration) :
             SectionDeclaration(k).declaration[s].kind = "SetAccessor"}

(***************************************************************************)
\* a SyntaxList directly under a declaration node or under a ModuleBlock
IsDeclarationContainer(tree, s) ==
    /\ tree[s].kind = "SyntaxList"
    /\ tree[s].parent # 0
    /\ \/ isSupportedSyntaxKind(tree[tree[s].parent].kind)
       \/ tree[tree[s].parent].kind = "ModuleBlock"

\* the children of a span that are not declarations, in their order
NonDeclarations(tree, order) ==
    SelectSeq(order, LAMBDA c : ~isSupportedSyntaxKind(tree[c].kind))

\* C18: while _modifySpan works on a declaration, a span has a sortKey only if it
\* is of a supported declaration kind and its parent is a SyntaxList directly under
\* a declaration node or a ModuleBlock; a span has sortChildren only if it is such
\* a SyntaxList with a declaration among its children; tokens and punctuation have
\* no sortKey; and in the order in which a span renders its children, every child
\* that is not a declaration stands where it stood.
C18_SortOnlyDeclarationChildren ==
    pc = "modify" =>
        LET tree == CurrentTree
        IN  \A s \in 1..Len(tree) :
              /\ modification[s].sortKey # NoSortKey =>
                   /\ isSupportedSyntaxKind(tree[s].kind)
                   /\ tree[s].parent # 0
                   /\ IsDeclarationContainer(tree, tree[s].parent)
                   /\ modification[tree[s].parent].sortChildren
              /\ modification[s].sortChildren =>
                   /\ IsDeclarationContainer(tree, s)
                   /\ \E i \in 1..Len(tree[s].children) :
                        /\ isSupportedSyntaxKind(tree[tree[s].children[i]].kind)
                        /\ modification[tree[s].children[i]].sortKey # NoSortKey
              /\ ~isSupportedSyntaxKind(tree[s].kind) => modification[s].sortKey = NoSortKey
              /\ LET order == RenderOrder(tree, modification, s)
                 IN  /\ Len(order) = Len(tree[s].children)
                     /\ \A i \in 1..Len(order) :
                          ~isSupportedSyntaxKind(tree[tree[s].children[i]].kind)
                              => order[i] = tree[s].children[i]
                     /\ NonDeclarations(tree, order) = NonDeclarations(tree, tree[s].children)

\* the members of a class have all been visited: the member list is rendered in
\* another order than the source's, the `;` between the members keeps its place,
\* and the list of modifiers, a SyntaxList under the declaration too, sorts nothing
C18_Witness ==
    /\ pc = "modify"
    /\ stack = <<>>
    /\ CurrentTree[1].kind = "ClassDeclaration"
    /\ \E s \in 1..Len(CurrentTree) :
         /\ modification[s].sortChildren
         /\ RenderOrder(CurrentTree, modification, s) # CurrentTree[s].children
         /\ \E i \in 1..Len(CurrentTree[s].children) :
              /\ CurrentTree[CurrentTree[s].children[i]].kind = "SemicolonClassElement"
              /\ RenderOrder(CurrentTree, modification, s)[i] = CurrentTree[s].children[i]
    /\ \E s \in 1..Len(CurrentTree) :
         /\ IsDeclarationContainer(CurrentTree, s)
         /\ ~modification[s].sortChildren

(***************************************************************************)
(* Claims about the two export styles                                      *)
(***************************************************************************)
ExportStatementsOf(e, exportName) ==
    {k \in ExportSections : sections[k].entity = e /\ sections[k].item = exportName}

ExportedEntities == {e \in 1..Len(collector.entities) : collector.entities[e].exported}

\* the export, default and declare keywords of the source
ModifierWords == {"export", "default", "declare"}

HasNoModifierWord(text) == \A i \in 1..Len(text) : text[i] \notin ModifierWords

\* the export statements of the entities: none for an entity exported inline, and
\* for another exported entity one for each export name once its exports are written
OneStatementPerExportName ==
    /\ \A k \in ExportSections :
         /\ ~SectionEntity(k).shouldInlineExport
         /\ Cardinality(ExportStatementsOf(sections[k].entity, sections[k].item)) = 1
         /\ \E x \in 1..Len(SectionEntity(k).exportNames) :
              SectionEntity(k).exportNames[x] = sections[k].item
         /\ StartsWith(StatementText(k), <<"export", " ">>)
    /\ pc \in {"trailer", "done"} =>
         \A e \in ExportedEntities :
             ~collector.entities[e].shouldInlineExport =>
                 \A x \in 1..Len(collector.entities[e].exportNames) :
                     ExportStatementsOf(e, collector.entities[e].exportNames[x]) # {}

\* C19 as stated: for every exported entity, with shouldInlineExport every one of
\* its declarations is written with `export ` in front and no export statement is
\* emitted for it; without, its declarations are written with no export, default
\* or declare keyword and exactly one export statement is emitted per export name.
C19_ExportStylesExclusive ==
    /\ \A k \in WrittenDeclarations :
         IF SectionEntity(k).shouldInlineExport
         THEN StartsWith(DeclarationText(k), <<"export", " ">>)
         ELSE HasNoModifierWord(DeclarationText(k))
    /\ OneStatementPerExportName

\* C19, amended: as stated, except that a preapproved declaration is written
\* without the `export` keyword even when its entity has shouldInlineExport, so
\* that it is exported neither inline nor by a statement.
C19_ExportStylesButPreapproved ==
    /\ \A k \in WrittenDeclarations :
         IF SectionEntity(k).shouldInlineExport /\ ~SectionDeclaration(k).metadata.isPreapproved
         THEN StartsWith(DeclarationText(k), <<"export", " ">>)
         ELSE HasNoModifierWord(DeclarationText(k))
    /\ OneStatementPerExportName

\* a finished report with a class exported by two statements, written without
\* `export`, and a namespace exported inline
C19_Witness ==
    /\ pc = "done"
    /\ \E k \in WrittenDeclarations :
         /\ ~SectionEntity(k).shouldInlineExport
         /\ StartsWith(DeclarationText(k), <<"class", " ", "Foo">>)
         /\ Cardinality({j \in ExportSections : sections[j].entity = sections[k].entity}) = 2
    /\ \E k \in WrittenDeclarations :
         /\ SectionEntity(k).shouldInlineExport
         /\ StartsWith(DeclarationText(k), <<"export", " ", "namespace", " ", "NS">>)
         /\ ~\E j \in ExportSections : sections[j].entity = sections[k].entity

(***************************************************************************)
(* Claims about the result of Extractor.invoke                             *)
(***************************************************************************)
\* C20: the succeeded of the ExtractorResult that invoke returns is errorCount = 0
\* when options.localBuild is true, and errorCount = 0 and warningCount = 0 when it
\* is false or absent, with the counts of the same extractorResult; so a local build with
\* warnings and no error succeeds.
C20_SucceededFromCounts ==
    extractorResult.returned =>
        /\ extractorResult.succeeded =
              IF options.localBuild = "true"
              THEN extractorResult.errorCount = 0
              ELSE extractorResult.errorCount = 0 /\ extractorResult.warningCount = 0
        /\ (options.localBuild = "true" /\ extractorResult.errorCount = 0) => extractorResult.succeeded

\* a local build returned with a warning and succeeded
C20_Witness ==
    /\ extractorResult.returned
    /\ options.localBuild = "true"
    /\ extractorResult.warningCount > 0
    /\ extractorResult.errorCount = 0
    /\ extractorResult.succeeded

(***************************************************************************)
(* Claims about the API report in Extractor.invoke                         *)
(***************************************************************************)
\* the approved report is missing or differs from the generated one
ApprovedReportDiffers(files) ==
    \/ ~files.report.exists
    \/ ~areEquivalentApiFileContents(environment.actualApiReportContent,
                                     files.report.content)

\* C21: apiReportChanged of the result is true exactly if the API report is enabled
\* and the approved report, as invoke finds it, is missing or not equivalent to the
\* generated report, whether the build is local or not: the report step, unless
\* the generator throws and no result is returned, sets it so, no later step
\* changes it, and the result carries it.
C21_ApiReportChanged ==
    [][/\ (invokePc = "report" /\ invokePc' # "thrown") =>
            apiReportChanged' = (/\ extractorConfig.apiReportEnabled
                                 /\ ApprovedReportDiffers(fileSystem))
       /\ invokePc \in {"rollups", "tsdocMetadata", "messages", "return"} =>
            apiReportChanged' = apiReportChanged
       /\ invokePc \in {"start", "docModel"} => fileSystem'.report = fileSystem.report
       /\ extractorResult'.returned =>
            extractorResult'.apiReportChanged = apiReportChanged]_vars

\* a local build returned apiReportChanged = false for an approved report that
\* differs from the generated one in its line ends only
C21_Witness ==
    /\ extractorResult.returned
    /\ ~extractorResult.apiReportChanged
    /\ options.localBuild = "true"
    /\ extractorConfig.apiReportEnabled
    /\ fileSystem.report.exists
    /\ fileSystem.report.content # environment.actualApiReportContent

\* a production build returned apiReportChanged = true for a missing report
C21_WitnessMissing ==
    /\ extractorResult.returned
    /\ extractorResult.apiReportChanged
    /\ options.localBuild = "false"
    /\ ~fileSystem.report.exists

(***************************************************************************)
(* Claims about errors and order in Extractor.invoke                       *)
(***************************************************************************)
InvokeEnded == invokePc \in {"returned", "thrown"}

\* the rollups that are configured: rollupEnabled and a non-empty output path
ConfiguredRollups ==
    IF extractorConfig.rollupEnabled
    THEN SelectSeq(<<"PublicRelease", "BetaRelease", "InternalRelease">>,
                   LAMBDA dtsKind :
                       CASE dtsKind = "PublicRelease" ->
                                extractorConfig.publicTrimmedFilePath # ""
                         [] dtsKind = "BetaRelease" ->
                                extractorConfig.betaTrimmedFilePath # ""
                         [] OTHER -> extractorConfig.untrimmedFilePath # "")
    ELSE <<>>

IsWritten(dtsKind) ==
    \E i \in 1..Len(fileSystem.rollups) : fileSystem.rollups[i] = dtsKind

IsConfigured(dtsKind) ==
    \E i \in 1..Len(ConfiguredRollups) : ConfiguredRollups[i] = dtsKind

\* the generator of the report or of a configured rollup has thrown
HasThrown ==
    \/ environment.thrownBy = "report" /\ extractorConfig.apiReportEnabled
    \/ IsConfigured(environment.thrownBy)

\* C22 as stated: when the generation of the review report or of the public rollup
\* throws, invoke has, when it ends, still written the beta and the internal
\* rollup that are configured with a non-empty output path.
C22_OtherTiersContinue ==
    (InvokeEnded /\ HasThrown /\ environment.thrownBy \in {"report", "PublicRelease"}) =>
        /\ IsConfigured("BetaRelease") => IsWritten("BetaRelease")
        /\ IsConfigured("InternalRelease") => IsWritten("InternalRelease")

\* C22, amended: an InternalError raised while generating an artifact ends the
\* whole invocation: invoke returns no result, and of the rollups exactly those
\* configured ones are written that come before the one that threw (none when the
\* review report threw); the tsdoc metadata is not written either.
C22_ErrorEndsInvoke ==
    /\ invokePc = "thrown" =>
         /\ HasThrown
         /\ ~extractorResult.returned
         /\ ~fileSystem.tsdocMetadata
         /\ \E n \in 0..Len(ConfiguredRollups) :
              /\ fileSystem.rollups = SubSeq(ConfiguredRollups, 1, n)
              /\ environment.thrownBy = "report" => n = 0
              /\ environment.thrownBy # "report" =>
                   /\ n < Len(ConfiguredRollups)
                   /\ ConfiguredRollups[n + 1] = environment.thrownBy
         /\ environment.thrownBy = "report" => ~fileSystem.reportTemp.exists
    /\ (InvokeEnded /\ HasThrown) => invokePc = "thrown"

\* the public rollup threw with the beta and the internal rollup configured
C22_Witness ==
    /\ invokePc = "thrown"
    /\ environment.thrownBy = "PublicRelease"
    /\ ConfiguredRollups = <<"PublicRelease", "BetaRelease", "InternalRelease">>
    /\ fileSystem.rollups = <<>>

AnalysisSteps ==
    {"collector.analyze", "DocCommentEnhancer.analyze", "ValidationEnhancer.analyze"}

\* the review report and the rollups, in the order of the claim
RenderRank(step) ==
    CASE step = "report" -> 1
      [] step = "PublicRelease" -> 2
      [] step = "BetaRelease" -> 3
      [] step = "InternalRelease" -> 4
      [] OTHER -> 0

Renderings == {i \in 1..Len(artifacts) : RenderRank(artifacts[i]) > 0}

OutputPathOf(dtsKind) ==
    CASE dtsKind = "PublicRelease" -> extractorConfig.publicTrimmedFilePath
      [] dtsKind = "BetaRelease" -> extractorConfig.betaTrimmedFilePath
      [] OTHER -> extractorConfig.untrimmedFilePath

RollupKinds == {"PublicRelease", "BetaRelease", "InternalRelease"}

\* the analysis and both enhancers are over before the first rendering, no step
\* of them comes after it, and the report and the rollups come one after another
\* in their order, each at most once
ResolveThenRender ==
    /\ \A i \in Renderings :
         /\ \A step \in AnalysisSteps : \E j \in 1..(i - 1) : artifacts[j] = step
         /\ \A j \in (i + 1)..Len(artifacts) : artifacts[j] \notin AnalysisSteps
    /\ \A i \in Renderings : \A j \in Renderings :
         i < j => RenderRank(artifacts[i]) < RenderRank(artifacts[j])
    /\ fileSystem.rollups =
           SelectSeq(artifacts, LAMBDA step : step \in RollupKinds)
    /\ \A i \in 1..Len(artifacts) :
         artifacts[i] = "report" => extractorConfig.apiReportEnabled

\* C23 as stated: the order above, and in an invocation that returned a rollup
\* tier was skipped exactly if its output path is the empty string.
C23_SkippedIffEmptyPath ==
    /\ ResolveThenRender
    /\ extractorResult.returned =>
         \A dtsKind \in RollupKinds : ~IsWritten(dtsKind) <=> OutputPathOf(dtsKind) = ""

\* C23, amended: the order above, and in an invocation that returned a rollup
\* tier was skipped exactly if rollupEnabled is false or its output path is the
\* empty string.
C23_SkippedIffDisabledOrEmptyPath ==
    /\ ResolveThenRender
    /\ extractorResult.returned =>
         \A dtsKind \in RollupKinds :
             ~IsWritten(dtsKind) <=>
                 (~extractorConfig.rollupEnabled \/ OutputPathOf(dtsKind) = "")

\* an invocation returned after the report, the public and the internal rollup,
\* the beta rollup having an empty path
C23_Witness ==
    /\ extractorResult.returned
    /\ SelectSeq(artifacts, LAMBDA step : RenderRank(step) > 0)
           = <<"report", "PublicRelease", "InternalRelease">>
    /\ extractorConfig.betaTrimmedFilePath = ""

(***************************************************************************)
(* Claims about the approved report in production and local builds         *)
(***************************************************************************)
HasLogged(logLevel, messageId) ==
    \E i \in 1..Len(messageRouter.console) :
        messageRouter.console[i] = [logLevel |-> logLevel, messageId |-> messageId]


\* the call of invoke that is running or has returned: the first or the second
IsSecondInvoke == \E i \in 1..Len(artifacts) : artifacts[i] = "Extractor.invoke"

IsReportMessage(messageId) ==
    messageId \in {"ApiReportNotCopied", "ApiReportCopied", "ApiReportCreated",
                   "ApiReportFolderMissing"}

\* a local build with the report enabled and the folder of the approved report
LocalReportBuild ==
    /\ options.localBuild = "true"
    /\ extractorConfig.apiReportEnabled
    /\ fileSystem.reportFolder

\* C26: when invoke has returned from a local build with the report enabled and the
\* folder of the approved report existing, the approved report exists and is
\* equivalent to the generated content, although it was written with CR LF line
\* ends; and a second invoke with the same arguments never changes the approved
\* report, logs no warning or error about the report, and returns
\* apiReportChanged = false.
C26_LocalUpdateIdempotent ==
    /\ [](/\ (extractorResult.returned /\ LocalReportBuild) =>
               /\ fileSystem.report.exists
               /\ areEquivalentApiFileContents(environment.actualApiReportContent,
                                               fileSystem.report.content)
          /\ (IsSecondInvoke /\ LocalReportBuild) =>
               /\ ~apiReportChanged
               /\ \A i \in 1..Len(messageRouter.console) :
                    ~IsReportMessage(messageRouter.console[i].messageId)
               /\ extractorResult.returned => ~extractorResult.apiReportChanged)
    /\ [][(IsSecondInvoke /\ LocalReportBuild) => fileSystem'.report = fileSystem.report]_vars

\* the first call has rewritten a different approved report with CR LF line ends,
\* and the second call has returned
C26_Witness ==
    /\ IsSecondInvoke
    /\ extractorResult.returned
    /\ LocalReportBuild
    /\ fileSystem.report.content = <<"b", "\r", "\n">>
    /\ environment.actualApiReportContent = <<"b", "\n">>
    /\ HasLogged("verbose", "ApiReportUnchanged")

\* C27: no step of a production invoke (localBuild false or not given) creates or
\* changes the approved report or its folder, and the report step of a production
\* invoke writes at most the temporary report; in any build, no step changes an
\* approved report that is equivalent to the generated content.
C27_ApprovedReportKept ==
    [][/\ ~LocalBuild(options) =>
            /\ fileSystem'.report = fileSystem.report
            /\ fileSystem'.reportFolder = fileSystem.reportFolder
            /\ invokePc = "report" =>
                 \/ fileSystem' = fileSystem
                 \/ fileSystem' = [fileSystem EXCEPT !.reportTemp =
                        File(ConvertToCrLf(environment.actualApiReportContent))]
       /\ (/\ fileSystem.report.exists
           /\ areEquivalentApiFileContents(environment.actualApiReportContent,
                                           fileSystem.report.content)) =>
            fileSystem'.report = fileSystem.report]_vars

\* a production invoke has returned: the temporary report is written, the approved
\* report is still missing and the report counts as changed
C27_Witness ==
    /\ ~LocalBuild(options)
    /\ extractorResult.returned
    /\ fileSystem.reportTemp.exists
    /\ ~fileSystem.report.exists
    /\ fileSystem.reportFolder
    /\ extractorResult.apiReportChanged

(***************************************************************************)
(* Claims about what generateReviewFileContent leaves alone                *)
(***************************************************************************)
\* the resolution state of a collector: the naming and the exports of the
\* entities, and the flags of the declarations
ResolutionState(c) ==
    [entities |->
         [e \in 1..Len(c.entities) |->
             [nameForEmit |-> c.entities[e].nameForEmit,
              exported |-> c.entities[e].exported,
              exportNames |-> c.entities[e].exportNames,
              shouldInlineExport |-> c.entities[e].shouldInlineExport]],
     declarations |->
         [d \in 1..Len(c.declarations) |->
             [isAncillary |-> c.declarations[d].isAncillary,
              metadata |-> c.declarations[d].metadata]]]

\* C25: no step of generateReviewFileContent changes the nameForEmit, exported,
\* exportNames or shouldInlineExport of an entity or the isAncillary or the
\* metadata of a declaration; what a step changes of a syntax tree is the
\* modification of the span of the current declaration, never the tree itself.
C25_RenderingKeepsResolutionState ==
    [][/\ ResolutionState(collector') = ResolutionState(collector)
       /\ [d \in 1..Len(collector'.declarations) |->
               collector'.declarations[d].declaration]
            = [d \in 1..Len(collector.declarations) |->
                   collector.declarations[d].declaration]]_vars

\* a finished report in which spans were modified: a declaration was written
\* with another text than its source has, and an ancillary declaration exists
C25_Witness ==
    /\ pc = "done"
    /\ \E d \in 1..Len(collector.declarations) : collector.declarations[d].isAncillary
    /\ \E k \in WrittenDeclarations :
         /\ SectionEntity(k).shouldInlineExport
         /\ StartsWith(DeclarationText(k), <<"export", " ", "class">>)
    /\ modification # <<>>

(***************************************************************************)
(* The messages of the top-level declarations                              *)
(***************************************************************************)
\* where the text of message i stands in the report
MessagePositions(i) ==
    {p \in 1..Len(stringWriter) : stringWriter[p] = collector.messages[i].text[1]}

\* the entity the declaration of message i belongs to
MessageOwner(i) ==
    CHOOSE e \in 1..Len(collector.entities) :
        \E j \in 1..Len(collector.entities[e].astDeclarations) :
            collector.entities[e].astDeclarations[j] = collector.messages[i].declaration

\* the export statements written for the entity under the export name of message i
MessageExportSections(i) ==
    {k \in ExportSections : /\ sections[k].entity = MessageOwner(i)
                            /\ sections[k].item = collector.messages[i].exportName}

\* C28: in the finished report, the text of every message of a top-level
\* declaration stands exactly once: among the warnings written before the export
\* statement of the declaration's entity for the message's export name if the
\* message has an export name and such a statement is written, and otherwise in
\* the synopsis written before the declaration.
C28_MessageReportedOnce ==
    pc = "done" =>
        \A i \in 1..Len(collector.messages) :
            /\ Cardinality(MessagePositions(i)) = 1
            /\ \A p \in MessagePositions(i) :
                 IF collector.messages[i].exportName # "" /\ MessageExportSections(i) # {}
                 THEN \E k \in MessageExportSections(i) :
                          sections[k].start <= p /\ p < sections[k].textStart
                 ELSE \E k \in DeclarationSections :
                          /\ sections[k].item = collector.messages[i].declaration
                          /\ sections[k].start <= p /\ p < sections[k].textStart

\* a finished report with one message of Foo's declaration written before the
\* statement that exports Foo as Alias and another, of the same declaration and
\* without an export name, written in the synopsis
C28_Witness ==
    /\ pc = "done"
    /\ Len(collector.messages) = 2
    /\ collector.messages[1].declaration = 1
    /\ collector.messages[2].declaration = 1
    /\ collector.messages[1].exportName = "Alias"
    /\ collector.messages[2].exportName = ""
    /\ MessageExportSections(1) # {}
    /\ \E p \in MessagePositions(1) : \E k \in MessageExportSections(1) :
           sections[k].start <= p /\ p < sections[k].textStart
    /\ \E p \in MessagePositions(2) : \E k \in DeclarationSections :
           sections[k].item = 1 /\ sections[k].start <= p /\ p < sections[k].textStart

\* a message with an export name the entity is not exported under separately is
\* written in the synopsis
C28_WitnessSynopsis ==
    /\ pc = "done"
    /\ Len(collector.messages) = 1
    /\ collector.messages[1].exportName = "Alias"
    /\ MessageExportSections(1) = {}
    /\ \E p \in MessagePositions(1) : \E k \in DeclarationSections :
           sections[k].start <= p /\ p < sections[k].textStart

(***************************************************************************)
(* The members of a container                                              *)
(***************************************************************************)
ReferencesOf(items) == {items[i].canonicalReference : i \in 1..Len(items)}

ItemsOf(items) == {items[i] : i \in 1..Len(items)}

\* the call that has just returned or thrown is addMember with a member whose
\* canonicalReference a member had before the call
DuplicateAdded ==
    /\ containerResult'.call = "addMember"
    /\ containerResult'.argument.canonicalReference \in ReferencesOf(members)

\* C29: a call of addMember with a member whose canonicalReference a member of the
\* container has already throws and leaves the member list, the map and the
\* sorted flag as they were; and at all times the members have pairwise distinct
\* canonical references and the list and the map hold the same items, each under
\* its own canonicalReference.
C29_DuplicateRejected ==
    /\ [][DuplicateAdded =>
            /\ containerResult'.thrown
            /\ members' = members
            /\ membersByCanonicalReference' = membersByCanonicalReference
            /\ membersSorted' = membersSorted]_vars
    /\ [](/\ \A i, j \in 1..Len(members) :
                members[i].canonicalReference = members[j].canonicalReference => i = j
          /\ Len(membersByCanonicalReference) = Len(members)
          /\ ItemsOf(members) = {membersByCanonicalReference[i].value :
                                    i \in 1..Len(membersByCanonicalReference)}
          /\ \A i \in 1..Len(membersByCanonicalReference) :
                membersByCanonicalReference[i].key =
                    membersByCanonicalReference[i].value.canonicalReference)

\* addMember has thrown for a member that differs from the member of the same
\* canonicalReference only in its sort key, after a read had sorted two members
C29_Witness ==
    /\ containerResult.call = "addMember"
    /\ containerResult.thrown
    /\ containerResult.argument \notin ItemsOf(members)
    /\ Len(members) = 2
    /\ membersSorted = "true"

\* C30: what a read of members returns holds every member whose addMember
\* returned normally exactly once, in non-decreasing order of the sort keys
\* (also when members were added after an earlier read); and tryGetMember(r)
\* returns the added member whose canonicalReference is r, or undefined if there
\* is none.
C30_MembersSortedAndFound ==
    /\ containerResult.call = "members" =>
         LET returned == containerResult.returned
         IN  /\ Len(returned) = Cardinality(addedMembers)
             /\ ItemsOf(returned) = addedMembers
             /\ \A i, j \in 1..Len(returned) :
                  i < j => localeCompare(returned[i].sortKey, returned[j].sortKey) <= 0
    /\ containerResult.call = "tryGetMember" =>
         LET reference == containerResult.argument.canonicalReference
             found == {member \in addedMembers : member.canonicalReference = reference}
         IN  IF found = {} THEN containerResult.item = NoApiItem
             ELSE found = {containerResult.item}

\* a read has returned three members in the order of their sort keys, which is
\* not the order they were added in: the member added last comes first
C30_Witness ==
    /\ containerResult.call = "members"
    /\ Len(containerResult.returned) = 3
    /\ containerResult.returned[1] = membersByCanonicalReference[3].value
    /\ containerResult.returned[3].sortKey = "C"
    /\ containerResult.returned[1].sortKey = "A"

\* tryGetMember has found a member, and has found none
C30_WitnessFound ==
    /\ containerResult.call = "tryGetMember"
    /\ containerResult.item # NoApiItem
    /\ containerResult.item.canonicalReference = "b"

====
